---------------------------- MODULE Spec2Model ----------------------------
(***************************************************************************)
(* A model of the colour-ramp generation engine of color-scale-v2:         *)
(*   - Mode A: generatePerceptuallyUniformScale   (src/scale-v1.js)        *)
(*   - Mode B: generateScale                      (src/scale-v2.js)        *)
(*   - the build loop over colour families        (src/build.js)           *)
(*                                                                         *)
(* JavaScript numbers are modelled as exact rationals <<n, d>> in lowest   *)
(* terms with d > 0, extended by the three non-finite values the code can  *)
(* produce by dividing by zero: <<0,0>> (NaN), <<1,0>> (+Infinity) and     *)
(* <<-1,0>> (-Infinity).  Rounding of binary floating point is modelled    *)
(* in one place, where wrapHue adds 360 to a remainder (Plus360); every    *)
(* other statement below is a statement in exact arithmetic.               *)
(***************************************************************************)
EXTENDS Integers, Sequences, FiniteSets, TLC

(***************************************************************************)
(* Numbers                                                                 *)
(***************************************************************************)
Abs(x) == IF x < 0 THEN -x ELSE x

Sign(x) == IF x < 0 THEN -1 ELSE IF x > 0 THEN 1 ELSE 0

RECURSIVE GCD(_, _)
GCD(a, b) == IF b = 0 THEN a ELSE GCD(b, a % b)

\* n/d in canonical form; d = 0 gives NaN or a signed infinity
Norm(n, d) ==
  IF d = 0 THEN <<Sign(n), 0>>
  ELSE LET g == GCD(Abs(n), Abs(d))
           s == IF d < 0 THEN -1 ELSE 1
       IN  <<(s * n) \div g, (s * d) \div g>>

R(n) == <<n, 1>>

Frac(n, d) == Norm(n, d)

NaN == <<0, 0>>

PosInf == <<1, 0>>

IsNaN(a) == a = NaN

IsFinite(a) == a[2] > 0

Zero == <<0, 1>>

One == <<1, 1>>

\* the value null / undefined of an optional numeric option
Null == <<0, -1>>

RNeg(a) == <<-a[1], a[2]>>

RAdd(a, b) ==
  IF IsNaN(a) \/ IsNaN(b) THEN NaN
  ELSE IF a[2] = 0 /\ b[2] = 0 THEN (IF a = b THEN a ELSE NaN)
  ELSE Norm(a[1] * b[2] + b[1] * a[2], a[2] * b[2])

RSub(a, b) == RAdd(a, RNeg(b))

RMul(a, b) == Norm(a[1] * b[1], a[2] * b[2])

RRecip(a) == Norm(a[2], a[1])

RDiv(a, b) ==
  IF a[2] = 0 /\ b[2] = 0 THEN NaN ELSE RMul(a, RRecip(b))

\* JavaScript ===, <, <=, >= on numbers: every comparison with NaN is false
REq(a, b) == ~IsNaN(a) /\ ~IsNaN(b) /\ a = b

RLt(a, b) == ~IsNaN(a) /\ ~IsNaN(b) /\ a[1] * b[2] < b[1] * a[2]

RLe(a, b) == RLt(a, b) \/ REq(a, b)

\* JavaScript truthiness of an optional number: null, undefined, 0, NaN are falsy
Truthy(a) == a # Null /\ a # NaN /\ a # Zero

\* JavaScript a % m for a finite a and a positive integer m (sign of the dividend)
RMod(a, m) ==
  IF ~IsFinite(a) THEN NaN
  ELSE LET k == m * a[2]
           r == IF a[1] >= 0 THEN a[1] % k ELSE -((-a[1]) % k)
       IN  Norm(r, a[2])

RECURSIVE RPow(_, _)
RPow(a, k) == IF k = 0 THEN One ELSE RMul(a, RPow(a, k - 1))

\* floor of a finite rational
RFloor(a) == a[1] \div a[2]

RECURSIVE IntPow2(_)
IntPow2(k) == IF k = 0 THEN 1 ELSE 2 * IntPow2(k - 1)

\* Math.pow(2, x): exact at integer x, linear between consecutive integers
Pow2(x) ==
  LET f == RFloor(x)
      m == RAdd(One, RSub(x, R(f)))
  IN  IF f >= 0 THEN RMul(R(IntPow2(f)), m) ELSE RDiv(m, R(IntPow2(-f)))

\* Math.sin(t * PI / 2) for 0 <= t <= 1 (Bhaskara's rational form: exact at
\* 0, 30 and 90 degrees, increasing in between)
SinQ(t) ==
  LET u == RDiv(RMul(t, RSub(R(2), t)), R(4))
  IN  RDiv(RMul(R(16), u), RSub(R(5), RMul(R(4), u)))

\* Math.cos(t * PI / 2) for 0 <= t <= 2
CosQ(t) == IF RLe(t, One) THEN SinQ(RSub(One, t)) ELSE RNeg(SinQ(RSub(t, One)))

(***************************************************************************)
(* Step table                                                              *)
(***************************************************************************)
STEPS == <<50, 100, 150, 200, 300, 400, 500, 600, 700, 800, 850, 900, 950>>

\* Array.prototype.indexOf on the step table: 0-based index, -1 when absent
IndexOf(step) ==
  IF \E i \in 1..Len(STEPS) : STEPS[i] = step
  THEN (CHOOSE i \in 1..Len(STEPS) : STEPS[i] = step) - 1
  ELSE -1

\* allSteps[i] for a 0-based index i
StepAt(i) == STEPS[i + 1]

(***************************************************************************)
(* Easing catalog (src/scale-v1.js)                                        *)
(***************************************************************************)
easeLinear(t) == t

easeInSine(t) == RSub(One, CosQ(t))

easeOutSine(t) == SinQ(t)

easeInOutSine(t) == RDiv(RNeg(RSub(CosQ(RMul(R(2), t)), One)), R(2))

\* 1 - Math.pow(1 - t, k)
OutPow(t, k) == RSub(One, RPow(RSub(One, t), k))

\* t < 0.5 ? 2^(k-1) * t^k : 1 - Math.pow(-2 * t + 2, k) / 2
InOutPow(t, k) ==
  IF RLt(t, Frac(1, 2))
  THEN RMul(R(IntPow2(k - 1)), RPow(t, k))
  ELSE RSub(One, RDiv(RPow(RAdd(RMul(R(-2), t), R(2)), k), R(2)))

easeInExpo(t) ==
  IF REq(t, Zero) THEN Zero ELSE Pow2(RMul(R(10), RSub(t, One)))

easeOutExpo(t) ==
  IF REq(t, One) THEN One ELSE RSub(One, Pow2(RMul(R(-10), t)))

\* the branches of the formula taken at the end points too
easeInOutExpoUnguarded(t) ==
  IF RLt(t, Frac(1, 2))
  THEN RDiv(Pow2(RSub(RMul(R(20), t), R(10))), R(2))
  ELSE RDiv(RSub(R(2), Pow2(RAdd(RMul(R(-20), t), R(10)))), R(2))

easeInOutExpo(t) ==
  IF REq(t, Zero) THEN Zero
  ELSE IF REq(t, One) THEN One
  ELSE IF RLt(t, Frac(1, 2))
       THEN RDiv(Pow2(RSub(RMul(R(20), t), R(10))), R(2))
       ELSE RDiv(RSub(R(2), Pow2(RAdd(RMul(R(-20), t), R(10)))), R(2))

ease(t, easingType) ==
  CASE easingType = "linear"         -> easeLinear(t)
    [] easingType = "easeInSine"     -> easeInSine(t)
    [] easingType = "easeOutSine"    -> easeOutSine(t)
    [] easingType = "easeInOutSine"  -> easeInOutSine(t)
    [] easingType = "easeInQuad"     -> RPow(t, 2)
    [] easingType = "easeOutQuad"    -> OutPow(t, 2)
    [] easingType = "easeInOutQuad"  -> InOutPow(t, 2)
    [] easingType = "easeInCubic"    -> RPow(t, 3)
    [] easingType = "easeOutCubic"   -> OutPow(t, 3)
    [] easingType = "easeInOutCubic" -> InOutPow(t, 3)
    [] easingType = "easeInQuart"    -> RPow(t, 4)
    [] easingType = "easeOutQuart"   -> OutPow(t, 4)
    [] easingType = "easeInOutQuart" -> InOutPow(t, 4)
    [] easingType = "easeInQuint"    -> RPow(t, 5)
    [] easingType = "easeOutQuint"   -> OutPow(t, 5)
    [] easingType = "easeInOutQuint" -> InOutPow(t, 5)
    [] easingType = "easeInExpo"     -> easeInExpo(t)
    [] easingType = "easeOutExpo"    -> easeOutExpo(t)
    [] easingType = "easeInOutExpo"  -> easeInOutExpo(t)
    [] OTHER                         -> easeLinear(t)


(***************************************************************************)
(* Colour-space conversion (the external module okhsl.js).                 *)
(* The contract: lightness, chroma magnitude and hue of the working space, *)
(* and its inverse; chroma is zero exactly when saturation is zero.        *)
(***************************************************************************)
MaxChroma == Frac(2, 5)

okhslToOKLCH(h, s, l) ==
  [L |-> RMul(R(100), l), C |-> RMul(MaxChroma, s), H |-> RMul(R(360), h)]

oklchToOKhsl(L, C, H) ==
  [h |-> RDiv(H, R(360)), s |-> RDiv(C, MaxChroma), l |-> RDiv(L, R(100))]

(***************************************************************************)
(* Mode A: piecewise curves (src/scale-v1.js)                              *)
(*                                                                         *)
(* A curve definition ["easeInSine:0.4", 200, "easeOutSine:0.6", 500] is a *)
(* sequence of pairs [name, rate, end]: rate = Null when the easing spec   *)
(* has no ":rate" suffix, end = 0 when the array holds no boundary after   *)
(* the easing spec.                                                        *)
(***************************************************************************)
Seg(name, rate, end) == [name |-> name, rate |-> rate, end |-> end]

\* curveDefinition[i + 1] || 950
EndStepOf(pair) == IF pair.end = 0 THEN 950 ELSE pair.end

parseCurveDefinition(curveDefinition, startStep) ==
  [k \in 1..Len(curveDefinition) |->
     [startStep  |-> IF k = 1 THEN startStep ELSE EndStepOf(curveDefinition[k - 1]),
      endStep    |-> EndStepOf(curveDefinition[k]),
      easingType |-> curveDefinition[k].name,
      rate       |-> IF curveDefinition[k].rate = Null THEN One
                     ELSE curveDefinition[k].rate]]

\* segments.reduce((sum, seg) => sum + seg.rate, 0) over the first k segments
RECURSIVE SumRates(_, _)
SumRates(segments, k) ==
  IF k = 0 THEN Zero ELSE RAdd(SumRates(segments, k - 1), segments[k].rate)

\* the fallback measured by label distance instead of index distance
LinearTByLabel(stepIndex, startIndex, endIndex) ==
  Frac(StepAt(stepIndex) - StepAt(startIndex), StepAt(endIndex) - StepAt(startIndex))

\* the linear fallback: t = (stepIndex - startIndex) / (endIndex - startIndex)
LinearT(stepIndex, startIndex, endIndex) ==
  Frac(stepIndex - startIndex, endIndex - startIndex)

\* the segment's own rate not divided by the total
ProgressUnnormalised(accumulatedRate, rate, totalRate, easedT) ==
  RAdd(RDiv(accumulatedRate, totalRate), RMul(rate, easedT))

\* progress = accumulatedRate / totalRate + (segment.rate / totalRate) * easedT
Progress(accumulatedRate, rate, totalRate, easedT) ==
  RAdd(RDiv(accumulatedRate, totalRate), RMul(RDiv(rate, totalRate), easedT))

\* stepIndex >= segment.startIndex && stepIndex <= segment.endIndex
InSegment(segments, k, stepIndex) ==
  /\ stepIndex >= IndexOf(segments[k].startStep)
  /\ stepIndex <= IndexOf(segments[k].endStep)

\* the body of the loop for the segment the step is in
SegmentValue(segments, k, stepIndex, startValue, endValue) ==
  LET segSpan == IndexOf(segments[k].endStep) - IndexOf(segments[k].startStep)
      localT  == IF segSpan = 0 THEN Zero
                 ELSE Frac(stepIndex - IndexOf(segments[k].startStep), segSpan)
      easedT  == ease(localT, segments[k].easingType)
      progress == Progress(SumRates(segments, k - 1), segments[k].rate,
                           SumRates(segments, Len(segments)), easedT)
  IN  RAdd(startValue, RMul(RSub(endValue, startValue), progress))

\* a step no segment holds left at the half's start value
EvaluateSegmentsFromStart(segments, stepIndex, startValue, endValue) ==
  IF \E k \in 1..Len(segments) : InSegment(segments, k, stepIndex)
  THEN SegmentValue(segments,
                    CHOOSE j \in 1..Len(segments) :
                      /\ InSegment(segments, j, stepIndex)
                      /\ \A m \in 1..(j - 1) : ~InSegment(segments, m, stepIndex),
                    stepIndex, startValue, endValue)
  ELSE startValue

\* the loop over the segments: the first segment the step is in decides
EvaluateSegments(segments, stepIndex, startValue, endValue) ==
  IF \E k \in 1..Len(segments) : InSegment(segments, k, stepIndex)
  THEN SegmentValue(segments,
                    CHOOSE j \in 1..Len(segments) :
                      /\ InSegment(segments, j, stepIndex)
                      /\ \A m \in 1..(j - 1) : ~InSegment(segments, m, stepIndex),
                    stepIndex, startValue, endValue)
  ELSE endValue

evaluateCurveSegment(step, curveDefinition, startValue, endValue, startIndex, endIndex) ==
  IF Len(curveDefinition) = 0
  THEN RAdd(startValue,
            RMul(RSub(endValue, startValue),
                 LinearT(IndexOf(step), startIndex, endIndex)))
  ELSE EvaluateSegments(parseCurveDefinition(curveDefinition, StepAt(startIndex)),
                        IndexOf(step), startValue, endValue)

evaluatePiecewiseCurve(step, tintCurve, shadeCurve, startValue, baseValue, endValue) ==
  LET stepIndex == IndexOf(step)
      baseIndex == IndexOf(500)
  IN
  IF stepIndex = -1 THEN baseValue
  ELSE IF stepIndex = baseIndex THEN baseValue
  ELSE IF stepIndex < baseIndex
       THEN evaluateCurveSegment(step, tintCurve, startValue, baseValue, 0, baseIndex)
       ELSE evaluateCurveSegment(step, shadeCurve, baseValue, endValue,
                                 baseIndex, Len(STEPS) - 1)

\* half the spacing of Numbers next to 360: adding 360 to a remainder closer
\* to 0 than this gives 360 itself (2^-45 for a double; the model's numbers
\* stop at a coarser grain)
HalfSpacing == Frac(1, 1048576)

\* 0 < |r| < HalfSpacing
Absorbed(r) ==
  IsFinite(r) /\ r # Zero /\ Abs(r[1]) <= (r[2] - 1) \div HalfSpacing[2]

\* r + 360 on Numbers, for a remainder r of % 360
Plus360(r) == IF Absorbed(r) THEN R(360) ELSE RAdd(r, R(360))

wrapHueV1(h) == RMod(Plus360(RMod(h, 360)), 360)

\* baseOKhsl.s, the reference saturation of the base colour
BaseSaturationA(o) == oklchToOKhsl(o.baseL, o.baseC, o.baseH).s

PeakSaturation(baseSaturation, shadeBoost) == RMul(baseSaturation, shadeBoost)

\* the peak hue shift left unboosted
PeakHueShiftUnboosted(o) ==
  RAdd(o.startHueShift,
       RMul(RSub(o.endHueShift, o.startHueShift),
            RDiv(RSub(o.shadePeakStep, R(500)), R(950 - 500))))

\* the boosted value the shade hue progression, which starts from 0 at the
\* pivot, reaches at the peak's label
BoostedPeakHueShiftFromZero(o) ==
  LET normalProgressToPeak == RDiv(RSub(o.shadePeakStep, R(500)), R(950 - 500))
  IN  RMul(RMul(o.endHueShift, normalProgressToPeak), o.shadeBoost)

BoostedPeakHueShift(o) ==
  LET normalProgressToPeak == RDiv(RSub(o.shadePeakStep, R(500)), R(950 - 500))
      peakHueShift == RAdd(o.startHueShift,
                           RMul(RSub(o.endHueShift, o.startHueShift),
                                normalProgressToPeak))
  IN  RMul(peakHueShift, o.shadeBoost)

\* the two eased branches without the test for the peak step itself
PeakValuesEasedOnly(o, step, baseSaturation, peakSaturation, boostedPeakHueShift) ==
  IF RLt(R(step), o.shadePeakStep)
  THEN LET t == RDiv(RSub(R(step), R(500)), RSub(o.shadePeakStep, R(500)))
           eased == easeOutSine(t)
       IN  [Si |-> RAdd(baseSaturation,
                        RMul(RSub(peakSaturation, baseSaturation), eased)),
            hueShift |-> RAdd(Zero, RMul(boostedPeakHueShift, eased))]
  ELSE LET t == RDiv(RSub(R(step), o.shadePeakStep),
                     RSub(R(950), o.shadePeakStep))
           eased == easeInSine(t)
       IN  [Si |-> RAdd(peakSaturation,
                        RMul(RSub(o.endS, peakSaturation), eased)),
            hueShift |-> RAdd(boostedPeakHueShift,
                              RMul(RSub(o.endHueShift, boostedPeakHueShift),
                                   eased))]

\* Si and hueShift of a shade step under the peak booster
PeakValues(o, step, baseSaturation, peakSaturation, boostedPeakHueShift) ==
  IF REq(R(step), o.shadePeakStep)
  THEN [Si |-> peakSaturation, hueShift |-> boostedPeakHueShift]
  ELSE IF RLt(R(step), o.shadePeakStep)
  THEN LET t == RDiv(RSub(R(step), R(500)), RSub(o.shadePeakStep, R(500)))
           eased == easeOutSine(t)
       IN  [Si |-> RAdd(baseSaturation,
                        RMul(RSub(peakSaturation, baseSaturation), eased)),
            hueShift |-> RAdd(Zero, RMul(boostedPeakHueShift, eased))]
  ELSE LET t == RDiv(RSub(R(step), o.shadePeakStep),
                     RSub(R(950), o.shadePeakStep))
           eased == easeInSine(t)
       IN  [Si |-> RAdd(peakSaturation,
                        RMul(RSub(o.endS, peakSaturation), eased)),
            hueShift |-> RAdd(boostedPeakHueShift,
                              RMul(RSub(o.endHueShift, boostedPeakHueShift),
                                   eased))]

\* the peak branch entered without the test step > 500
SaturationAndHueShiftAnyStep(o, step, baseSaturation) ==
  IF Truthy(o.shadePeakStep) /\ Truthy(o.shadeBoost)
  THEN PeakValues(o, step, baseSaturation,
                  PeakSaturation(baseSaturation, o.shadeBoost),
                  BoostedPeakHueShift(o))
  ELSE [Si |-> evaluatePiecewiseCurve(step, o.tintSaturationCurve,
                                      o.shadeSaturationCurve,
                                      o.startS, baseSaturation, o.endS),
        hueShift |-> evaluatePiecewiseCurve(step, o.tintHueCurve, o.shadeHueCurve,
                                            o.startHueShift, Zero, o.endHueShift)]

\* Si and hueShift of a step other than 500
SaturationAndHueShift(o, step, baseSaturation) ==
  IF Truthy(o.shadePeakStep) /\ Truthy(o.shadeBoost) /\ step > 500
  THEN PeakValues(o, step, baseSaturation,
                  PeakSaturation(baseSaturation, o.shadeBoost),
                  BoostedPeakHueShift(o))
  ELSE [Si |-> evaluatePiecewiseCurve(step, o.tintSaturationCurve,
                                      o.shadeSaturationCurve,
                                      o.startS, baseSaturation, o.endS),
        hueShift |-> evaluatePiecewiseCurve(step, o.tintHueCurve, o.shadeHueCurve,
                                            o.startHueShift, Zero, o.endHueShift)]

\* the record of Li and of the locals Si, hueShift
WithLi(Li, sh) == [Li |-> Li, Si |-> sh.Si, hueShift |-> sh.hueShift]

\* the per-step locals Li, Si, hueShift of generatePerceptuallyUniformScale
\* (not computed at step 500, where the loop continues early)
ResolveA(o, step) ==
  IF step = 500 THEN [Li |-> Null, Si |-> Null, hueShift |-> Null]
  ELSE WithLi(evaluatePiecewiseCurve(step, o.tintLightnessCurve,
                                     o.shadeLightnessCurve,
                                     o.startL, o.baseL, o.endL),
              SaturationAndHueShift(o, step, BaseSaturationA(o)))

\* Ci: the chroma of the step, 0 for a zero or NaN saturation
ChromaA(Si, tempC) ==
  IF REq(Si, Zero) \/ IsNaN(Si) THEN Zero
  ELSE IF IsNaN(tempC) THEN Zero ELSE tempC

\* scale[i] from the locals of the step and its wrapped hue Hi
SampleOf(o, r, Hi) ==
  [L |-> r.Li,
   C |-> ChromaA(r.Si,
                 okhslToOKLCH(RDiv(Hi, R(360)), r.Si,
                              oklchToOKhsl(o.baseL, o.baseC, o.baseH).l).C),
   H |-> Hi]

\* the rest of an iteration once the locals r of the step are resolved
SampleFrom(o, r) == SampleOf(o, r, wrapHueV1(RAdd(o.baseH, r.hueShift)))

\* one iteration of the loop of generatePerceptuallyUniformScale: scale[i]
SampleA(o, step) ==
  IF step = 500 THEN [L |-> o.baseL, C |-> o.baseC, H |-> o.baseH]
  ELSE SampleFrom(o, ResolveA(o, step))

generatePerceptuallyUniformScale(o) ==
  [i \in 1..Len(STEPS) |-> SampleA(o, STEPS[i])]

LocalsA(o) == [i \in 1..Len(STEPS) |-> ResolveA(o, STEPS[i])]


(***************************************************************************)
(* Inputs of Mode A                                                        *)
(***************************************************************************)
\* base colours in OKLCH, converted from OKhsl as the build does
BasesA ==
  { okhslToOKLCH(Frac(47, 720), Frac(9, 10), Frac(57, 100)),
    okhslToOKLCH(Frac(350, 360), Frac(1, 2), Frac(4, 5)),
    okhslToOKLCH(Zero, Zero, Frac(1, 2)) }

NoCurve == << >>

\* the default curves of colors-v1.js
DefaultTintCurve ==
  <<Seg("easeInSine", Frac(2, 5), 200), Seg("easeOutSine", Frac(3, 5), 500)>>

DefaultShadeCurve ==
  <<Seg("easeInSine", Frac(3, 5), 800), Seg("linear", Frac(2, 5), 950)>>

\* largest rate numerator of the generated two-segment curves
MaxRate == 2

\* easings used in the generated two-segment curves
SweepEasings == {"linear", "easeInQuad", "easeOutSine", "easeInOutExpo"}

\* two segments e1:r1 up to the label at index mid, e2:r2 up to lastLabel
TwoSegmentCurves(firstIndex, lastLabel) ==
  { <<Seg(e1, R(r1), StepAt(firstIndex + m)), Seg(e2, R(r2), lastLabel)>> :
      e1 \in SweepEasings, e2 \in SweepEasings,
      r1 \in 1..MaxRate, r2 \in 1..MaxRate, m \in {1, 3, 5} }

TintCurves ==
  { NoCurve,
    <<Seg("linear", Null, 500)>>,
    <<Seg("linear", Null, 0)>>,
    DefaultTintCurve,
    <<Seg("easeInOutSine", Null, 150), Seg("easeInQuint", R(2), 400),
      Seg("bogus", Frac(1, 2), 500)>>,
    <<Seg("easeInExpo", Null, 50), Seg("easeInOutExpo", Null, 500)>>,
    <<Seg("linear", Null, 250), Seg("linear", Null, 500)>>,
    <<Seg("linear", Null, 300)>>,
    <<Seg("linear", Zero, 500)>> }

ShadeCurves ==
  { NoCurve,
    <<Seg("linear", Null, 950)>>,
    <<Seg("linear", Null, 0)>>,
    DefaultShadeCurve,
    <<Seg("easeOutQuart", Null, 700), Seg("easeInOutQuad", R(3), 850),
      Seg("easeInCubic", Null, 0)>>,
    <<Seg("easeOutQuint", Null, 650), Seg("linear", Null, 0)>>,
    <<Seg("linear", Null, 700)>>,
    <<Seg("linear", Null, 975)>>,
    <<Seg("linear", Null, 950), Seg("linear", Null, 0)>>,
    <<Seg("easeOutCubic", R(1), 800), Seg("easeInQuart", R(-1), 950)>> }

\* {startS, endS, startHueShift, endHueShift}
AnchorsA ==
  { [startS |-> Frac(9, 100), endS |-> Frac(9, 40),
     startHueShift |-> R(-8), endHueShift |-> R(-5)],
    [startS |-> Zero, endS |-> Zero,
     startHueShift |-> R(26), endHueShift |-> R(-20)],
    [startS |-> Frac(1, 20), endS |-> Zero,
     startHueShift |-> Zero, endHueShift |-> Zero] }

\* {shadePeakStep, shadeBoost}
PeaksA ==
  { <<Null, Null>>, <<R(600), Frac(11, 10)>>, <<R(800), Frac(6, 5)>>,
    <<R(950), Frac(11, 10)>>, <<R(500), Frac(11, 10)>>, <<R(650), Frac(5, 4)>>,
    <<R(600), Null>>, <<Null, Frac(11, 10)>>, <<R(700), Frac(4, 5)>>,
    <<R(1400), Frac(11, 10)>>, <<R(300), Frac(11, 10)>> }

OptA(base, a, tl, sl, ts, ss, th, sh, pk) ==
  [baseL |-> base.L, baseC |-> base.C, baseH |-> base.H,
   startL |-> R(98), endL |-> Frac(39, 2),
   startS |-> a.startS, endS |-> a.endS,
   startHueShift |-> a.startHueShift, endHueShift |-> a.endHueShift,
   tintLightnessCurve |-> tl, shadeLightnessCurve |-> sl,
   tintSaturationCurve |-> ts, shadeSaturationCurve |-> ss,
   tintHueCurve |-> th, shadeHueCurve |-> sh,
   shadePeakStep |-> pk[1], shadeBoost |-> pk[2]]

\* the easing names of the catalog
CatalogEasings ==
  { "linear", "easeInSine", "easeOutSine", "easeInOutSine",
    "easeInQuad", "easeOutQuad", "easeInOutQuad",
    "easeInCubic", "easeOutCubic", "easeInOutCubic",
    "easeInQuart", "easeOutQuart", "easeInOutQuart",
    "easeInQuint", "easeOutQuint", "easeInOutQuint",
    "easeInExpo", "easeOutExpo", "easeInOutExpo" }

\* the two halves as evaluatePiecewiseCurve hands them to evaluateCurveSegment,
\* each with the label where the first of two segments ends
Halves ==
  { [startIndex |-> 0, endIndex |-> 6, startValue |-> R(98), endValue |-> R(57),
     boundary |-> 200],
    [startIndex |-> 6, endIndex |-> 12, startValue |-> R(57),
     endValue |-> Frac(39, 2), boundary |-> 800] }

\* evaluateCurveSegment at the boundary of a two-segment curve and at the step
\* before it, for every two easings of the catalog
BoundaryCalls ==
  { [op |-> "evaluateCurveSegment", step |-> StepAt(IndexOf(h.boundary) - back),
     curveDefinition |-> <<Seg(e1, R(r1), h.boundary),
                           Seg(e2, R(r2), StepAt(h.endIndex))>>,
     startValue |-> h.startValue, endValue |-> h.endValue,
     startIndex |-> h.startIndex, endIndex |-> h.endIndex] :
      h \in Halves, e1 \in CatalogEasings, e2 \in CatalogEasings,
      r1 \in 1..MaxRate, r2 \in 1..MaxRate, back \in {0, 1} }

\* pairs <<tint curve, shade curve>>: every catalog curve of one half with
\* the absent and the default curve of the other half
CurvePairs ==
  { <<t, s>> : t \in TintCurves, s \in {NoCurve, DefaultShadeCurve} }
  \cup { <<t, s>> : t \in {NoCurve, DefaultTintCurve}, s \in ShadeCurves }

DefaultPairs == { <<NoCurve, NoCurve>>, <<DefaultTintCurve, DefaultShadeCurve>> }

RedBase == okhslToOKLCH(Frac(47, 720), Frac(9, 10), Frac(57, 100))

RedAnchors ==
  [startS |-> Frac(9, 100), endS |-> Frac(9, 40),
   startHueShift |-> R(-8), endHueShift |-> R(-5)]

\* the configurations generatePerceptuallyUniformScale is called with
OptionsA ==
  \* the catalog curves on the lightness channel, with and without the booster
  { OptA(b, a, l[1], l[2], c[1], c[2], c[1], c[2], pk) :
      b \in BasesA, a \in AnchorsA, l \in CurvePairs, c \in DefaultPairs,
      pk \in {<<Null, Null>>, <<R(600), Frac(11, 10)>>} }
  \cup
  \* the catalog curves on the saturation and hue channels
  { OptA(b, a, NoCurve, NoCurve, c[1], c[2], c[1], c[2], <<Null, Null>>) :
      b \in BasesA, a \in AnchorsA, c \in CurvePairs }
  \cup
  \* the peak settings
  { OptA(b, a, DefaultTintCurve, DefaultShadeCurve, c[1], c[2], NoCurve, NoCurve, pk) :
      b \in BasesA, a \in AnchorsA, c \in DefaultPairs, pk \in PeaksA }
  \cup
  \* the generated two-segment curves, on every channel
  { OptA(RedBase, RedAnchors, t, NoCurve, t, NoCurve, t, NoCurve, <<Null, Null>>) :
      t \in TwoSegmentCurves(0, 500) }
  \cup
  { OptA(RedBase, RedAnchors, NoCurve, s, NoCurve, s, NoCurve, s, <<Null, Null>>) :
      s \in TwoSegmentCurves(6, 950) }

(***************************************************************************)
(* Inputs of wrapHue                                                       *)
(***************************************************************************)
\* hues range over -MaxTurns .. MaxTurns full turns, in steps of 1/HueGrain degree
MaxTurns == 2

HueGrain == 2

\* multiples of 1 / HueGrain over MaxTurns turns either way, and two angles
\* next to 0 that are smaller than the spacing of Numbers at 360
HueInputs ==
  { Frac(k, HueGrain) : k \in (-360 * MaxTurns * HueGrain)..(360 * MaxTurns * HueGrain) }
  \cup { Frac(-1, 2097152), Frac(1, 2097152) }

\* scale-v2.js
wrapHueV2(hue) ==
  LET h == RMod(hue, 360)
  IN  IF RLt(h, Zero) THEN Plus360(h) ELSE h

(***************************************************************************)
(* Mode B: progression maps (src/scale-v2.js)                              *)
(*                                                                         *)
(* A progression map { 50: 60, 950: 90 } is a function from its keys to    *)
(* its values; an absent or empty map is the function with no keys.        *)
(***************************************************************************)
StepSet == { STEPS[i] : i \in 1..Len(STEPS) }

Map1(k1, v1) == [k \in {k1} |-> v1]

Map2(k1, v1, k2, v2) == [k \in {k1, k2} |-> IF k = k1 THEN v1 ELSE v2]

\* { ...a, ...b }: the entries of b override those of a
Spread(a, b) ==
  [k \in DOMAIN a \cup DOMAIN b |-> IF k \in DOMAIN b THEN b[k] ELSE a[k]]

\* every entry kept, whatever its key
mapValuesToStepsUnvalidated(values, availableSteps) == values

mapValuesToSteps(values, availableSteps) ==
  [k \in DOMAIN values \cap availableSteps |-> values[k]]

\* Object.keys(controlPoints).map(Number).sort((a, b) => a - b)
RECURSIVE SortedKeys(_)
SortedKeys(S) ==
  IF S = {} THEN << >>
  ELSE LET m == CHOOSE x \in S : \A y \in S : x <= y
       IN  <<m>> \o SortedKeys(S \ {m})

\* the interpolation parameter taken from the positions of the labels in
\* STEPS instead of from the labels
interpolateValueByIndex(step, controlPoints) ==
  IF step \in DOMAIN controlPoints THEN controlPoints[step]
  ELSE
    LET steps == SortedKeys(DOMAIN controlPoints)
        Around(i) == step >= steps[i] /\ step <= steps[i + 1]
    IN
    IF \E i \in 1..(Len(steps) - 1) : Around(i)
    THEN LET beforeIdx == CHOOSE i \in 1..(Len(steps) - 1) :
                            Around(i) /\ \A m \in 1..(i - 1) : ~Around(m)
             afterIdx == beforeIdx + 1
             t == Frac(IndexOf(step) - IndexOf(steps[beforeIdx]),
                       IndexOf(steps[afterIdx]) - IndexOf(steps[beforeIdx]))
             valueBefore == controlPoints[steps[beforeIdx]]
             valueAfter == controlPoints[steps[afterIdx]]
         IN  RAdd(valueBefore, RMul(RSub(valueAfter, valueBefore), t))
    ELSE IF step < steps[1] THEN controlPoints[steps[1]]
         ELSE controlPoints[steps[Len(steps)]]

\* the two boundary values of the closest-value return exchanged
interpolateValueFarBoundary(step, controlPoints) ==
  IF step \in DOMAIN controlPoints THEN controlPoints[step]
  ELSE
    LET steps == SortedKeys(DOMAIN controlPoints)
        Around(i) == step >= steps[i] /\ step <= steps[i + 1]
    IN
    IF \E i \in 1..(Len(steps) - 1) : Around(i)
    THEN LET beforeIdx == CHOOSE i \in 1..(Len(steps) - 1) :
                            Around(i) /\ \A m \in 1..(i - 1) : ~Around(m)
             afterIdx == beforeIdx + 1
             t == Frac(step - steps[beforeIdx], steps[afterIdx] - steps[beforeIdx])
             valueBefore == controlPoints[steps[beforeIdx]]
             valueAfter == controlPoints[steps[afterIdx]]
         IN  RAdd(valueBefore, RMul(RSub(valueAfter, valueBefore), t))
    ELSE IF step < steps[1] THEN controlPoints[steps[Len(steps)]]
         ELSE controlPoints[steps[1]]

interpolateValue(step, controlPoints) ==
  IF step \in DOMAIN controlPoints THEN controlPoints[step]
  ELSE
    LET steps == SortedKeys(DOMAIN controlPoints)
        Around(i) == step >= steps[i] /\ step <= steps[i + 1]
    IN
    IF \E i \in 1..(Len(steps) - 1) : Around(i)
    THEN LET beforeIdx == CHOOSE i \in 1..(Len(steps) - 1) :
                            Around(i) /\ \A m \in 1..(i - 1) : ~Around(m)
             afterIdx == beforeIdx + 1
             t == Frac(step - steps[beforeIdx], steps[afterIdx] - steps[beforeIdx])
             valueBefore == controlPoints[steps[beforeIdx]]
             valueAfter == controlPoints[steps[afterIdx]]
         IN  RAdd(valueBefore, RMul(RSub(valueAfter, valueBefore), t))
    ELSE IF step < steps[1] THEN controlPoints[steps[1]]
         ELSE controlPoints[steps[Len(steps)]]

\* the map's own entry at 500 applied after the base entry
HueControlsOverridable(o) ==
  Spread(Map1(500, Zero), mapValuesToSteps(o.hueProgression, StepSet))

HueControls(o) ==
  Spread(mapValuesToSteps(o.hueProgression, StepSet), Map1(500, Zero))

\* the percentages used as saturation values, without the conversion
SatControlsUnconverted(o) ==
  Spread(mapValuesToSteps(o.saturationProgression, StepSet),
         Map1(500, o.baseSaturation))

SatControls(o) ==
  LET satProgression == mapValuesToSteps(o.saturationProgression, StepSet)
  IN  Spread([k \in DOMAIN satProgression |->
                RMul(o.baseSaturation, RDiv(satProgression[k], R(100)))],
             Map1(500, o.baseSaturation))

\* the tint percentages measured from the base lightness towards startL
LightControlsTintFromBase(o) ==
  LET lightProgression == mapValuesToSteps(o.lightnessProgression, StepSet)
      tintRange == RSub(o.baseLightness, o.startL)
      shadeRange == RSub(o.endL, o.baseLightness)
      anchors == [k \in {50, 500, 950} |->
                    IF k = 50 THEN o.startL
                    ELSE IF k = 500 THEN o.baseLightness ELSE o.endL]
      converted ==
        [k \in DOMAIN lightProgression \ {500} |->
           IF k < 500
           THEN RSub(o.baseLightness, RMul(RDiv(lightProgression[k], R(100)), tintRange))
           ELSE RAdd(o.baseLightness,
                     RMul(RDiv(lightProgression[k], R(100)), shadeRange))]
  IN  Spread(anchors, converted)

LightControls(o) ==
  LET lightProgression == mapValuesToSteps(o.lightnessProgression, StepSet)
      tintRange == RSub(o.baseLightness, o.startL)
      shadeRange == RSub(o.endL, o.baseLightness)
      anchors == [k \in {50, 500, 950} |->
                    IF k = 50 THEN o.startL
                    ELSE IF k = 500 THEN o.baseLightness ELSE o.endL]
      converted ==
        [k \in DOMAIN lightProgression \ {500} |->
           IF k < 500
           THEN RAdd(o.startL, RMul(RDiv(lightProgression[k], R(100)), tintRange))
           ELSE RAdd(o.baseLightness,
                     RMul(RDiv(lightProgression[k], R(100)), shadeRange))]
  IN  Spread(anchors, converted)

\* new Color("okhsl", [H, S, L]).to("oklch"), read as {L, C, H} (Color.js)
ColorOkhslToOklch(H, S, L) ==
  LET c == okhslToOKLCH(RDiv(H, R(360)), S, L)
  IN  [L |-> c.L, C |-> c.C, H |-> IF c.C = Zero THEN Zero ELSE c.H]

\* the per-step locals hueShift, H, S, L of generateScale
ResolveB(o, step) ==
  LET hueShift == interpolateValue(step, HueControls(o))
  IN  [hueShift |-> hueShift,
       H |-> wrapHueV2(RAdd(o.baseHue, hueShift)),
       S |-> RDiv(interpolateValue(step, SatControls(o)), R(100)),
       L |-> RDiv(interpolateValue(step, LightControls(o)), R(100))]

LocalsB(o) == [i \in 1..Len(STEPS) |-> ResolveB(o, STEPS[i])]

generateScale(o) ==
  [i \in 1..Len(STEPS) |->
     LET r == ResolveB(o, STEPS[i]) IN ColorOkhslToOklch(r.H, r.S, r.L)]

(***************************************************************************)
(* Inputs of Mode B                                                        *)
(***************************************************************************)
NoMap == << >>

\* {baseHue, baseSaturation, baseLightness}
BasesB ==
  { <<Frac(1003, 50), Frac(9291, 100), Frac(229, 4)>>,
    <<R(355), R(50), R(80)>>,
    <<R(360), R(70), R(40)>>,
    <<Zero, Zero, R(50)>> }

\* {startL, endL}
AnchorsB == { <<R(98), R(8)>>, <<R(90), Frac(39, 2)>> }

HueMaps ==
  { NoMap,
    Map2(50, R(-10), 950, R(-10)),
    Spread(Map2(50, R(30), 950, R(-20)), Map1(500, R(15))),
    Map2(200, R(12), 250, R(5)) }

SaturationMaps ==
  { NoMap,
    Map2(50, R(60), 950, R(90)),
    Spread(Map2(50, R(20), 200, R(50)), Map2(800, R(100), 950, R(20))),
    Map2(50, Zero, 500, R(50)),
    Map2(75, R(40), 900, R(120)) }

DefaultLightnessMap ==
  Spread(Spread(Map2(100, R(5), 150, R(20)), Map2(200, R(40), 400, R(85))),
         Spread(Map2(600, R(10), 850, R(75)), Map1(900, R(90))))

LightnessMaps ==
  { NoMap,
    DefaultLightnessMap,
    Map1(600, R(10)),
    Map2(50, R(10), 950, R(90)),
    Map2(50, Zero, 950, R(100)),
    Map2(300, R(50), 500, R(30)),
    Map2(700, R(40), 975, R(50)) }

OptionsB ==
  { [baseHue |-> b[1], baseSaturation |-> b[2], baseLightness |-> b[3],
     startL |-> a[1], endL |-> a[2],
     hueProgression |-> h, saturationProgression |-> s,
     lightnessProgression |-> l] :
      b \in BasesB, a \in AnchorsB, h \in HueMaps, s \in SaturationMaps,
      l \in LightnessMaps }

(***************************************************************************)
(* The build (src/build.js): the forEach callback turns one colour config  *)
(* into generator options, generates the ramp and stores its hex values.   *)
(* All callbacks of a version share the version module's defaults object.  *)
(*                                                                         *)
(* A config is a record holding only the properties it was written with;   *)
(* a name "red-500" is the sequence of its dash-separated parts.           *)
(***************************************************************************)
\* obj[key] ?? fallback
Coalesce(obj, key, fallback) ==
  IF key \in DOMAIN obj /\ obj[key] # Null THEN obj[key] ELSE fallback

\* Math.max / Math.min of two numbers
RMax(a, b) == IF IsNaN(a) \/ IsNaN(b) THEN NaN ELSE IF RLt(a, b) THEN b ELSE a

RMin(a, b) == IF IsNaN(a) \/ IsNaN(b) THEN NaN ELSE IF RLt(b, a) THEN b ELSE a

normalizeColorValue(value, type) ==
  IF value = Null THEN value
  ELSE IF type = "hue" THEN RDiv(value, R(360)) ELSE RDiv(value, R(100))

calculateSaturationRange(baseSaturation) ==
  [startS |-> RMax(Frac(1, 20), RMul(baseSaturation, Frac(1, 10))),
   endS |-> RMin(Frac(1, 4), RMul(baseSaturation, Frac(1, 4)))]

\* the rest properties of the config destructuring
Overrides(config) ==
  [k \in DOMAIN config \ {"name", "baseHue", "baseSaturation", "baseLightness"} |->
     config[k]]

\* a family's maps spread over the default maps, entry by entry
OptionsV2Merged(config, dflt) ==
  LET overrides == Overrides(config)
      Merged(key) == Spread(dflt[key], Coalesce(overrides, key, dflt[key]))
  IN  [baseHue |-> config.baseHue,
       baseSaturation |-> config.baseSaturation,
       baseLightness |-> config.baseLightness,
       startL |-> Coalesce(overrides, "startL", dflt.startL),
       endL |-> Coalesce(overrides, "endL", dflt.endL),
       hueProgression |-> Merged("hueProgression"),
       saturationProgression |-> Merged("saturationProgression"),
       lightnessProgression |-> Merged("lightnessProgression")]

\* the options of the progression system (isV2)
OptionsV2(config, dflt) ==
  LET overrides == Overrides(config)
  IN  [baseHue |-> config.baseHue,
       baseSaturation |-> config.baseSaturation,
       baseLightness |-> config.baseLightness,
       startL |-> Coalesce(overrides, "startL", dflt.startL),
       endL |-> Coalesce(overrides, "endL", dflt.endL),
       hueProgression |-> Coalesce(overrides, "hueProgression", dflt.hueProgression),
       saturationProgression |->
         Coalesce(overrides, "saturationProgression", dflt.saturationProgression),
       lightnessProgression |->
         Coalesce(overrides, "lightnessProgression", dflt.lightnessProgression)]

\* the options of the curve system
OptionsV1(config, dflt) ==
  LET overrides == Overrides(config)
      Has(key) == key \in DOMAIN overrides
      baseHue == normalizeColorValue(config.baseHue, "hue")
      baseSaturation == normalizeColorValue(config.baseSaturation, "saturation")
      baseLightness == normalizeColorValue(config.baseLightness, "lightness")
      baseOKLCH == okhslToOKLCH(baseHue, baseSaturation, baseLightness)
      calculated == calculateSaturationRange(baseSaturation)
      startS == IF Has("startS")
                THEN normalizeColorValue(overrides.startS, "saturation")
                ELSE calculated.startS
      endS == IF Has("endS")
              THEN normalizeColorValue(overrides.endS, "saturation")
              ELSE calculated.endS
  IN  [baseL |-> baseOKLCH.L, baseC |-> baseOKLCH.C, baseH |-> baseOKLCH.H,
       startL |-> Coalesce(config, "startL", dflt.startL),
       endL |-> Coalesce(config, "endL", dflt.endL),
       startS |-> startS, endS |-> endS,
       startHueShift |-> IF Has("startHueShift") THEN config.startHueShift ELSE Zero,
       endHueShift |-> IF Has("endHueShift") THEN config.endHueShift ELSE Zero,
       tintLightnessCurve |->
         Coalesce(overrides, "tintLightnessCurve", dflt.tintLightnessCurve),
       tintSaturationCurve |->
         Coalesce(overrides, "tintSaturationCurve", dflt.tintSaturationCurve),
       tintHueCurve |-> Coalesce(overrides, "tintHueCurve", dflt.tintHueCurve),
       shadeLightnessCurve |->
         Coalesce(overrides, "shadeLightnessCurve", dflt.shadeLightnessCurve),
       shadeSaturationCurve |->
         Coalesce(overrides, "shadeSaturationCurve", dflt.shadeSaturationCurve),
       shadeHueCurve |-> Coalesce(overrides, "shadeHueCurve", dflt.shadeHueCurve),
       shadePeakStep |-> IF Has("shadePeakStep") THEN overrides.shadePeakStep ELSE Null,
       shadeBoost |-> IF Has("shadeBoost") THEN overrides.shadeBoost ELSE Null]

\* the family name of a configuration: name.split('-')[0]
FamilyOf(config) == config.name[1]

\* the options object the callback assembles for the version
OptionsFor(version, config, dflt) ==
  IF version = "v2" THEN OptionsV2(config, dflt) ELSE OptionsV1(config, dflt)

\* generateFn(options) on the options the callback assembles
GenerateFor(version, config, dflt) ==
  IF version = "v2" THEN generateScale(OptionsV2(config, dflt))
  ELSE generatePerceptuallyUniformScale(OptionsV1(config, dflt))

\* one 8-bit channel of the hex string
Channel(x, max) ==
  IF ~IsFinite(x) THEN -1
  ELSE LET q == RFloor(RAdd(RDiv(RMul(x, R(255)), max), Frac(1, 2)))
       IN  IF q < 0 THEN 0 ELSE IF q > 255 THEN 255 ELSE q

\* the hex string of a sample (Color.js): three 8-bit channels
oklchToHex(c) ==
  <<Channel(c.L, R(100)), Channel(c.C, MaxChroma), Channel(c.H, R(360))>>

\* the map a call aliased to its lightControls would leave behind
lightControlsAliased(o) == LightControls(o)

\* the object options.lightnessProgression once generateScale has returned: the
\* function writes its control points into a fresh object, not into the map
\* it was passed
lightnessProgressionAfter(o) == o.lightnessProgression

\* colors-v1.js
DefaultsV1 ==
  [startL |-> R(98), endL |-> Frac(39, 2),
   tintLightnessCurve |-> DefaultTintCurve,
   tintSaturationCurve |-> DefaultTintCurve,
   tintHueCurve |-> <<Seg("linear", Null, 500)>>,
   shadeLightnessCurve |-> DefaultShadeCurve,
   shadeSaturationCurve |-> DefaultShadeCurve,
   shadeHueCurve |-> <<Seg("linear", Null, 950)>>]

ConfigsV1 ==
  << [name |-> <<"red", "500">>, baseHue |-> Frac(47, 2),
      baseSaturation |-> R(90), baseLightness |-> R(57),
      startHueShift |-> R(-8), endHueShift |-> R(-5)],
     [name |-> <<"orange", "500">>, baseHue |-> Frac(491, 10),
      baseSaturation |-> R(94), baseLightness |-> R(67),
      startHueShift |-> R(26), endHueShift |-> R(-20),
      startS |-> R(12), shadePeakStep |-> R(800), shadeBoost |-> Frac(6, 5),
      shadeLightnessCurve |-> <<Seg("easeInQuad", Null, 950)>>],
     [name |-> <<"neutral", "500">>, baseHue |-> Frac(899, 10),
      startL |-> Frac(491, 5), endL |-> Frac(43, 2),
      baseSaturation |-> Zero, baseLightness |-> R(42),
      startHueShift |-> Zero, endHueShift |-> Zero,
      startS |-> Zero, endS |-> Zero],
     [name |-> <<"red", "muted", "500">>, baseHue |-> Frac(47, 2),
      baseSaturation |-> R(30), baseLightness |-> R(45)] >>

\* colors-v2.js
DefaultsV2 ==
  [startL |-> R(98), endL |-> R(8),
   hueProgression |-> Map2(50, R(-10), 950, R(-10)),
   saturationProgression |-> Map2(50, R(60), 950, R(90)),
   lightnessProgression |-> DefaultLightnessMap]

ConfigsV2 ==
  << [name |-> <<"red", "500">>, baseHue |-> Frac(1003, 50),
      baseSaturation |-> Frac(9291, 100), baseLightness |-> Frac(229, 4),
      hueProgression |-> Map2(50, R(-8), 950, R(-5))],
     [name |-> <<"orange", "500">>, baseHue |-> Frac(547, 10),
      baseSaturation |-> Frac(4903, 50), baseLightness |-> Frac(1401, 20),
      hueProgression |-> Map2(50, R(30), 950, R(-20)),
      lightnessProgression |-> Map1(600, R(10))],
     [name |-> <<"neutral", "500">>, baseHue |-> R(90),
      baseSaturation |-> R(5), baseLightness |-> R(42),
      startL |-> R(99), endL |-> R(12),
      saturationProgression |-> Map2(50, Zero, 950, Zero)] >>

\* the two colour modules as imported
ColorModules ==
  [v1 |-> [defaults |-> DefaultsV1, colorConfigs |-> ConfigsV1],
   v2 |-> [defaults |-> DefaultsV2, colorConfigs |-> ConfigsV2]]

\* the number of callbacks a run is followed for
MaxCalls == 3

(***************************************************************************)
(* The contrast classifier (colors-utilities.js: src/unnamed/part_000,     *)
(* src/unnamed/part_001) and the swatch row of the page (app.js, kept in   *)
(* src/colors-v2.js).                                                      *)
(*                                                                         *)
(* A hex colour is the triple of 8-bit channels oklchToHex produces; its   *)
(* luminance is read from the first channel.  The contrast algorithms of   *)
(* Color.js are stand-ins that keep what the classifier depends on: APCA   *)
(* is signed and weighs the two polarities differently, WCAG 2.1 is the    *)
(* ratio of the lighter to the darker colour.                              *)
(***************************************************************************)
white == <<255, 0, 0>>

black == <<0, 0, 0>>

\* the relative luminance of a hex colour, in 0..1
Luminance(hex) == Frac(hex[1], 255)

RAbs(a) == <<Abs(a[1]), a[2]>>

\* contrastAPCA(background, foreground): positive for dark text on a light
\* background, negative for light text on a dark background
contrastAPCA(background, foreground) ==
  LET Ybg == Luminance(background)
      Ytxt == Luminance(foreground)
  IN  IF RLe(Ytxt, Ybg) THEN RMul(R(106), RSub(Ybg, Ytxt))
      ELSE RMul(R(108), RSub(Ybg, Ytxt))

\* contrastWCAG21: (lighter + 0.05) / (darker + 0.05)
contrastWCAG21(color1, color2) ==
  LET Y1 == RMax(Luminance(color1), Luminance(color2))
      Y2 == RMin(Luminance(color1), Luminance(color2))
  IN  RDiv(RAdd(Y1, Frac(1, 20)), RAdd(Y2, Frac(1, 20)))

\* background.contrast(foreground, method)
contrast(background, foreground, method) ==
  IF method = "APCA" THEN contrastAPCA(background, foreground)
  ELSE contrastWCAG21(background, foreground)

\* part_001: (1.0 + 0.05) / (L + 0.05)
getContrastRatioAgainstWhite(hex) ==
  RDiv(RAdd(One, Frac(1, 20)), RAdd(Luminance(hex), Frac(1, 20)))

\* the scan started at the last index and moved down
RECURSIVE ScanDown(_, _, _, _)
ScanDown(hexValues, targetLc, method, i) ==
  IF i < 0 THEN -1
  ELSE IF RLe(targetLc, RAbs(contrast(hexValues[i + 1], white, method))) THEN i
  ELSE ScanDown(hexValues, targetLc, method, i - 1)

\* the loop of findFirstContrastyShade from index i on
RECURSIVE ScanUp(_, _, _, _)
ScanUp(hexValues, targetLc, method, i) ==
  IF ~(i < Len(hexValues)) THEN -1
  ELSE IF RLe(targetLc, RAbs(contrast(hexValues[i + 1], white, method))) THEN i
  ELSE ScanUp(hexValues, targetLc, method, i + 1)

findLastContrastyShade(hexValues, targetLc, method) ==
  ScanDown(hexValues, targetLc, method, Len(hexValues) - 1)

\* part_000: findFirstContrastyShade(hexValues, targetLc = 60), with
\* window.CONTRAST_CONFIG.method passed as method
findFirstContrastyShade(hexValues, targetLc, method) ==
  ScanUp(hexValues, targetLc, method, 0)

\* the loop of the ratio variant from index i on
RECURSIVE ScanUpRatio(_, _)
ScanUpRatio(hexValues, i) ==
  IF ~(i < Len(hexValues)) THEN -1
  ELSE IF RLe(Frac(9, 2), getContrastRatioAgainstWhite(hexValues[i + 1])) THEN i
  ELSE ScanUpRatio(hexValues, i + 1)

\* part_001: findFirstContrastyShade(hexValues) on the luminance ratio
findFirstContrastyShadeRatio(hexValues) == ScanUpRatio(hexValues, 0)

computeContrastDotColor(hex, config) ==
  IF RLe(config.targetLc, RAbs(contrast(hex, white, config.method)))
  THEN white ELSE black

\* the four contrast values getContrastMasks takes of a colour
whiteOnColor(color) == RAbs(contrastAPCA(color, white))

blackOnColor(color) == RAbs(contrastAPCA(color, black))

colorOnWhite(color) == RAbs(contrastAPCA(white, color))

colorOnBlack(color) == RAbs(contrastAPCA(black, color))

MaskKeys ==
  {"lc60-white", "lc60-black", "lc70-white", "lc70-black", "lc30-white", "lc30-black"}

\* every mask taken with the colour as the background
getContrastMasksColorAsBackground(hexValues) ==
  [key \in MaskKeys |->
     [i \in 1..Len(hexValues) |->
        CASE key = "lc60-white" -> RLe(R(60), whiteOnColor(hexValues[i]))
          [] key = "lc60-black" -> RLe(R(60), blackOnColor(hexValues[i]))
          [] key = "lc70-white" -> RLe(R(70), whiteOnColor(hexValues[i]))
          [] key = "lc30-white" -> RLe(R(30), whiteOnColor(hexValues[i]))
          [] key = "lc70-black" -> RLe(R(70), blackOnColor(hexValues[i]))
          [] key = "lc30-black" -> RLe(R(30), blackOnColor(hexValues[i]))]]

\* the thresholds 70 and 30 of the colour-as-text masks exchanged
getContrastMasksThresholdsSwapped(hexValues) ==
  [key \in MaskKeys |->
     [i \in 1..Len(hexValues) |->
        CASE key = "lc60-white" -> RLe(R(60), whiteOnColor(hexValues[i]))
          [] key = "lc60-black" -> RLe(R(60), blackOnColor(hexValues[i]))
          [] key = "lc70-white" -> RLe(R(30), colorOnWhite(hexValues[i]))
          [] key = "lc30-white" -> RLe(R(70), colorOnWhite(hexValues[i]))
          [] key = "lc70-black" -> RLe(R(30), colorOnBlack(hexValues[i]))
          [] key = "lc30-black" -> RLe(R(70), colorOnBlack(hexValues[i]))]]

getContrastMasks(hexValues) ==
  [key \in MaskKeys |->
     [i \in 1..Len(hexValues) |->
        CASE key = "lc60-white" -> RLe(R(60), whiteOnColor(hexValues[i]))
          [] key = "lc60-black" -> RLe(R(60), blackOnColor(hexValues[i]))
          [] key = "lc70-white" -> RLe(R(70), colorOnWhite(hexValues[i]))
          [] key = "lc30-white" -> RLe(R(30), colorOnWhite(hexValues[i]))
          [] key = "lc70-black" -> RLe(R(70), colorOnBlack(hexValues[i]))
          [] key = "lc30-black" -> RLe(R(30), colorOnBlack(hexValues[i]))]]

\* createScaleRow: the entry pushed to window.allColorScales, the index the
\* scan returned and, per swatch, its colour, its contrast dot and whether it
\* carries the contrast indicator
createScaleRow(colorName, hexValues, steps, config) ==
  LET contrastyShadeIndex == findFirstContrastyShade(hexValues, R(60), config.method)
  IN  [pushed |-> [name |-> <<colorName, "500">>, hexValues |-> hexValues,
                   steps |-> steps],
       contrastyShadeIndex |-> contrastyShadeIndex,
       swatches |->
         [idx \in 1..Len(hexValues) |->
            [backgroundColor |-> hexValues[idx],
             contrastDot |-> computeContrastDotColor(hexValues[idx], config),
             indicator |-> (idx - 1 = contrastyShadeIndex)]]]

(***************************************************************************)
(* Inputs of the classifier                                                *)
(***************************************************************************)
Grey(level) == <<level, 0, 0>>

\* the ramps the build generates from the modules as imported
GeneratedRamps ==
  { [k \in 1..Len(STEPS) |->
       oklchToHex(GenerateFor(version, ColorModules[version].colorConfigs[i],
                              ColorModules[version].defaults)[k])] :
      version \in {"v2"}, i \in 1..Len(ColorModules.v2.colorConfigs) }

GreyLevels == {0, 88, 112, 150, 255}

\* the longest ramp of the exhaustive family of short ramps
MaxShort == 2

RECURSIVE GreyRamps(_)
GreyRamps(n) ==
  IF n = 0 THEN { << >> }
  ELSE { Append(r, Grey(l)) : r \in GreyRamps(n - 1), l \in GreyLevels }

ShortRamps == UNION { GreyRamps(n) : n \in 0..MaxShort }

\* 13 greys from their levels
FullRamp(levels) == [k \in 1..Len(STEPS) |-> Grey(levels[k])]

FullRamps ==
  { FullRamp(<<250, 240, 225, 210, 190, 170, 150, 112, 88, 60, 40, 25, 10>>),
    FullRamp(<<250, 230, 200, 150, 112, 100, 90, 80, 70, 60, 40, 25, 10>>),
    FullRamp(<<255, 250, 245, 240, 235, 230, 225, 220, 215, 210, 205, 200, 195>>),
    FullRamp(<<100, 90, 80, 70, 60, 50, 40, 30, 20, 15, 10, 5, 0>>),
    FullRamp(<<250, 100, 250, 240, 230, 220, 210, 200, 190, 180, 170, 160, 150>>),
    FullRamp(<<250, 240, 230, 220, 210, 200, 113, 200, 190, 180, 170, 160, 150>>),
    FullRamp(<<250, 240, 230, 220, 210, 200, 190, 180, 170, 160, 150, 140, 113>>) }

Ramps == GeneratedRamps \cup ShortRamps \cup FullRamps

\* window.CONTRAST_CONFIG
ContrastConfigs ==
  { [method |-> "APCA", targetLc |-> R(60)],
    [method |-> "APCA", targetLc |-> R(75)],
    [method |-> "WCAG21", targetLc |-> Frac(9, 2)] }

\* the targetLc argument; Null when the call omits it
TargetArgs == { Null, R(45), R(75), Frac(9, 2) }

ContrastCalls ==
  { [op |-> "findFirstContrastyShade", hexValues |-> h, targetLc |-> t,
     config |-> c] : h \in Ramps, t \in TargetArgs, c \in ContrastConfigs }
  \cup { [op |-> "findFirstContrastyShadeRatio", hexValues |-> h] : h \in Ramps }
  \cup { [op |-> "getContrastMasks", hexValues |-> h] : h \in Ramps }
  \cup { [op |-> "createScaleRow", colorName |-> "red", hexValues |-> h,
          steps |-> [k \in 1..Len(h) |-> STEPS[k]], config |-> c] :
           h \in GeneratedRamps \cup FullRamps, c \in ContrastConfigs }

(***************************************************************************)
(* State                                                                   *)
(***************************************************************************)
VARIABLES
  pc,      \* "ready": the call has not run yet; "done": it has returned
  call,    \* the call: its name and its argument
  scale,   \* what a generation call returned (13 samples)
  locals,  \* the per-step locals of the call
  colorModule, \* per version, the imported module: its defaults and colorConfigs
  scaleData,   \* per version, the hex ramps the build has collected by family
  history      \* the generation calls the build has made, with what they returned

vars == <<pc, call, scale, locals, colorModule, scaleData, history>>

Calls ==
  { [op |-> "generatePerceptuallyUniformScale", options |-> o] : o \in OptionsA }
  \cup { [op |-> "generateScale", options |-> o] : o \in OptionsB }
  \cup { [op |-> "wrapHue", h |-> h] : h \in HueInputs }
  \cup BoundaryCalls

Init ==
  /\ pc = "ready"
  /\ call \in Calls
  /\ scale = << >>
  /\ locals = << >>
  /\ colorModule = ColorModules
  /\ scaleData = [v1 |-> << >>, v2 |-> << >>]
  /\ history = << >>

GenerateA ==
  /\ pc = "ready"
  /\ call.op = "generatePerceptuallyUniformScale"
  /\ scale' = generatePerceptuallyUniformScale(call.options)
  /\ locals' = LocalsA(call.options)
  /\ pc' = "done"
  /\ UNCHANGED <<call, colorModule, scaleData, history>>

GenerateB ==
  /\ pc = "ready"
  /\ call.op = "generateScale"
  /\ scale' = generateScale(call.options)
  /\ locals' = LocalsB(call.options)
  /\ pc' = "done"
  /\ UNCHANGED <<call, colorModule, scaleData, history>>

WrapHue ==
  /\ pc = "ready"
  /\ call.op = "wrapHue"
  /\ scale' = << >>
  /\ locals' = [v1 |-> wrapHueV1(call.h), v2 |-> wrapHueV2(call.h),
                v1v1 |-> wrapHueV1(wrapHueV1(call.h)),
                v2v2 |-> wrapHueV2(wrapHueV2(call.h))]
  /\ pc' = "done"
  /\ UNCHANGED <<call, colorModule, scaleData, history>>

\* one call of the curve evaluation of a half
EvaluateCurveSegment ==
  /\ pc = "ready"
  /\ call.op = "evaluateCurveSegment"
  /\ scale' = << >>
  /\ locals' = [value |-> evaluateCurveSegment(call.step, call.curveDefinition,
                                               call.startValue, call.endValue,
                                               call.startIndex, call.endIndex)]
  /\ pc' = "done"
  /\ UNCHANGED <<call, colorModule, scaleData, history>>

Next == GenerateA \/ GenerateB \/ WrapHue \/ EvaluateCurveSegment

Spec == Init /\ [][Next]_vars

\* the forEach callback of generateColorScaleForVersion, for the config at
\* position i of the version's colorConfigs
ProcessConfig ==
  /\ pc = "build"
  /\ Len(history) < MaxCalls
  /\ \E version \in {"v1", "v2"} :
       \E i \in 1..Len(colorModule[version].colorConfigs) :
         LET config == colorModule[version].colorConfigs[i]
             dflt == colorModule[version].defaults
             colorName == FamilyOf(config)
             after == lightnessProgressionAfter(OptionsV2(config, dflt))
         IN
         \E fullScaleLCH \in {GenerateFor(version, config, dflt)} :
         \E fullScaleHex \in {[k \in 1..Len(fullScaleLCH) |-> oklchToHex(fullScaleLCH[k])]} :
         LET ramp == [k \in StepSet |-> fullScaleHex[IndexOf(k) + 1]]
         IN  /\ history' = Append(history, [version |-> version, index |-> i,
                                            options |-> OptionsFor(version, config, dflt),
                                            fullScaleLCH |-> fullScaleLCH])
             /\ scaleData' = [scaleData EXCEPT ![version] = Spread(@, Map1(colorName, ramp))]
             /\ colorModule' =
                  IF version # "v2" THEN colorModule
                  ELSE IF "lightnessProgression" \in DOMAIN config
                  THEN [colorModule EXCEPT
                          !.v2.colorConfigs[i].lightnessProgression = after]
                  ELSE [colorModule EXCEPT !.v2.defaults.lightnessProgression = after]
  /\ UNCHANGED <<pc, call, scale, locals>>

InitBuild ==
  /\ pc = "build"
  /\ call = << >>
  /\ scale = << >>
  /\ locals = << >>
  /\ colorModule = ColorModules
  /\ scaleData = [v1 |-> << >>, v2 |-> << >>]
  /\ history = << >>

NextBuild == ProcessConfig

SpecBuild == InitBuild /\ [][NextBuild]_vars

\* one call of the classifier or of the page's row builder
InitContrast ==
  /\ pc = "classify"
  /\ call \in ContrastCalls
  /\ scale = << >>
  /\ locals = << >>
  /\ colorModule = ColorModules
  /\ scaleData = [v1 |-> << >>, v2 |-> << >>]
  /\ history = << >>

FindFirstContrastyShade ==
  /\ pc = "classify"
  /\ call.op = "findFirstContrastyShade"
  /\ locals' = [result |->
                  findFirstContrastyShade(call.hexValues,
                                          IF call.targetLc = Null THEN R(60)
                                          ELSE call.targetLc,
                                          call.config.method)]
  /\ pc' = "classified"
  /\ UNCHANGED <<call, scale, colorModule, scaleData, history>>

FindFirstContrastyShadeRatio ==
  /\ pc = "classify"
  /\ call.op = "findFirstContrastyShadeRatio"
  /\ locals' = [result |-> findFirstContrastyShadeRatio(call.hexValues)]
  /\ pc' = "classified"
  /\ UNCHANGED <<call, scale, colorModule, scaleData, history>>

GetContrastMasks ==
  /\ pc = "classify"
  /\ call.op = "getContrastMasks"
  /\ locals' = [masks |-> getContrastMasks(call.hexValues)]
  /\ pc' = "classified"
  /\ UNCHANGED <<call, scale, colorModule, scaleData, history>>

CreateScaleRow ==
  /\ pc = "classify"
  /\ call.op = "createScaleRow"
  /\ locals' = createScaleRow(call.colorName, call.hexValues, call.steps,
                              call.config)
  /\ pc' = "classified"
  /\ UNCHANGED <<call, scale, colorModule, scaleData, history>>

NextContrast ==
  \/ FindFirstContrastyShade
  \/ FindFirstContrastyShadeRatio
  \/ GetContrastMasks
  \/ CreateScaleRow

SpecContrast == InitContrast /\ [][NextContrast]_vars

(***************************************************************************)
(* Properties                                                              *)
(***************************************************************************)
DoneA == pc = "done" /\ call.op = "generatePerceptuallyUniformScale"

DoneB == pc = "done" /\ call.op = "generateScale"

DoneWrap == pc = "done" /\ call.op = "wrapHue"

\* 1-based positions of the samples of steps 50, 500 and 950
First == IndexOf(50) + 1

Pivot == IndexOf(500) + 1

Last == IndexOf(950) + 1

\* a and b are the same angle
SameAngle(a, b) == LET turns == RDiv(RSub(a, b), R(360)) IN turns[2] = 1

C2_AnchorsAbsolute ==
  DoneB =>
    /\ locals[First].L = RDiv(call.options.startL, R(100))
    /\ locals[Last].L = RDiv(call.options.endL, R(100))

\* the rate of a pair of a curve definition
RateOf(pair) == IF pair.rate = Null THEN One ELSE pair.rate

\* the curve's segments tile the half firstIndex..lastIndex: the boundaries are
\* step labels, strictly increasing, the last one the half's final label, and
\* every rate is positive
Tiles(curve, firstIndex, lastIndex) ==
  /\ Len(curve) > 0
  /\ \A k \in 1..Len(curve) :
       LET sI == IF k = 1 THEN firstIndex ELSE IndexOf(EndStepOf(curve[k - 1]))
           eI == IndexOf(EndStepOf(curve[k]))
       IN  /\ firstIndex <= sI /\ sI < eI /\ eI <= lastIndex
           /\ IsFinite(RateOf(curve[k])) /\ RLt(Zero, RateOf(curve[k]))
  /\ IndexOf(EndStepOf(curve[Len(curve)])) = lastIndex

\* C3 as stated: in Mode A the sample of step 50 has lightness startL and the
\* sample of step 950 has lightness endL for every lightness curve definition.
C3_AnchorsForAnyCurve ==
  DoneA =>
    /\ scale[First].L = call.options.startL
    /\ scale[Last].L = call.options.endL

\* the peak booster overrides saturation and hue shift of the shade steps
BoosterActive(o) == Truthy(o.shadePeakStep) /\ Truthy(o.shadeBoost)

\* what each configuration of the modules as imported generates
ExpectedScale ==
  [version \in {"v1", "v2"} |->
     [i \in 1..Len(ColorModules[version].colorConfigs) |->
        GenerateFor(version, ColorModules[version].colorConfigs[i],
                    ColorModules[version].defaults)]]

\* C4: generation is deterministic and history-independent: whatever calls
\* came before, a call returns for a configuration the array that the
\* configuration and the module's defaults determine, two calls for the same
\* configuration return the same array, and no call changes what the modules
\* hold.
C4_HistoryIndependent ==
  (pc = "build") =>
    /\ colorModule = ColorModules
    /\ \A k \in 1..Len(history) :
         history[k].fullScaleLCH = ExpectedScale[history[k].version][history[k].index]
    /\ \A j, k \in 1..Len(history) :
         (history[j].version = history[k].version /\ history[j].index = history[k].index)
           => history[j].fullScaleLCH = history[k].fullScaleLCH

\* the same Mode B family, which takes its lightness progression from the
\* shared defaults, generated before and after a Mode A family
C4_Witness ==
  /\ pc = "build"
  /\ Len(history) = 3
  /\ history[1].version = "v2" /\ history[1].index = 1
  /\ history[2].version = "v1"
  /\ history[3].version = "v2" /\ history[3].index = 1
  /\ history[1].fullScaleLCH = history[3].fullScaleLCH
  /\ history[1].fullScaleLCH # history[2].fullScaleLCH
  /\ "red" \in DOMAIN scaleData.v2 /\ "red" \in DOMAIN scaleData.v1

\* C5 as stated: in Mode A an achromatic base gives chroma 0 at all 13
\* samples for every choice of curves, of startS and endS, and of the booster.
C5_AchromaticForAnyAnchors ==
  (DoneA /\ call.options.baseC = Zero) =>
    \A i \in 1..Len(STEPS) : scale[i].C = Zero

\* C6: both wrapHue implementations return r with 0 <= r < 360, r congruent
\* to h modulo 360, and wrapHue(wrapHue(h)) = wrapHue(h).
C6_WrapHue ==
  DoneWrap =>
    /\ \A r \in {locals.v1, locals.v2} :
         /\ RLe(Zero, r) /\ RLt(r, R(360))
         /\ SameAngle(r, call.h)
    /\ locals.v1v1 = locals.v1
    /\ locals.v2v2 = locals.v2

\* start + (end - start) * (i - firstIndex) / (lastIndex - firstIndex)
LinearByIndex(start, end, i, firstIndex, lastIndex) ==
  RAdd(start, RMul(RSub(end, start), <<i - firstIndex, lastIndex - firstIndex>>))

TintIndices == (First - 1)..(Pivot - 2)

ShadeIndices == Pivot..(Last - 1)

\* C7: in Mode A a half whose curve definition is empty or absent is linear
\* in the step index over the half's index span, on every channel.
C7_EmptyCurveIsLinear ==
  DoneA =>
    LET o == call.options
        bS == BaseSaturationA(o)
        TintLaw(curve, start, end, Val(_)) ==
          (curve = NoCurve) =>
            \A i \in TintIndices :
              Val(i) = LinearByIndex(start, end, i, First - 1, Pivot - 1)
        ShadeLaw(curve, start, end, Val(_)) ==
          (curve = NoCurve) =>
            \A i \in ShadeIndices :
              Val(i) = LinearByIndex(start, end, i, Pivot - 1, Last - 1)
    IN  /\ TintLaw(o.tintLightnessCurve, o.startL, o.baseL,
                   LAMBDA i : locals[i + 1].Li)
        /\ ShadeLaw(o.shadeLightnessCurve, o.baseL, o.endL,
                    LAMBDA i : locals[i + 1].Li)
        /\ TintLaw(o.tintSaturationCurve, o.startS, bS,
                   LAMBDA i : locals[i + 1].Si)
        /\ TintLaw(o.tintHueCurve, o.startHueShift, Zero,
                   LAMBDA i : locals[i + 1].hueShift)
        /\ ~BoosterActive(o) =>
             /\ ShadeLaw(o.shadeSaturationCurve, bS, o.endS,
                         LAMBDA i : locals[i + 1].Si)
             /\ ShadeLaw(o.shadeHueCurve, Zero, o.endHueShift,
                         LAMBDA i : locals[i + 1].hueShift)

C7_Witness ==
  /\ DoneA
  /\ call.options.tintLightnessCurve = NoCurve
  /\ call.options.shadeLightnessCurve = NoCurve
  /\ call.options.startL # call.options.baseL
  /\ locals[IndexOf(850) + 1].Li =
       LinearByIndex(call.options.baseL, call.options.endL, 10, 6, 12)

\* a curve definition with the boundary of its final segment written out
WithTrailingBoundary(curve, label) ==
  IF Len(curve) > 0 /\ curve[Len(curve)].end = 0
  THEN [curve EXCEPT ![Len(curve)].end = label]
  ELSE curve

\* C8: a final segment written without a boundary ends at the final index of
\* the half it is parsed for (500 for a tint curve, 950 for a shade curve), so
\* that a configuration behaves as the one with the boundaries written out.
C8_TrailingBoundaryDefault ==
  DoneA =>
    LET o == call.options
        written ==
          [o EXCEPT !.tintLightnessCurve = WithTrailingBoundary(@, 500),
                    !.tintSaturationCurve = WithTrailingBoundary(@, 500),
                    !.tintHueCurve = WithTrailingBoundary(@, 500),
                    !.shadeLightnessCurve = WithTrailingBoundary(@, 950),
                    !.shadeSaturationCurve = WithTrailingBoundary(@, 950),
                    !.shadeHueCurve = WithTrailingBoundary(@, 950)]
        tint == o.tintLightnessCurve
    IN  /\ (Len(tint) > 0 /\ tint[Len(tint)].end = 0) =>
             IndexOf(parseCurveDefinition(tint, 50)[Len(tint)].endStep) = Pivot - 1
        /\ scale = generatePerceptuallyUniformScale(written)

\* the sum of the rates of the first k pairs of a curve definition
RECURSIVE RateSum(_, _)
RateSum(curve, k) ==
  IF k = 0 THEN Zero ELSE RAdd(RateSum(curve, k - 1), RateOf(curve[k]))

\* 0-based index of the end boundary of pair k; pair 0 ends where the half starts
BoundaryIndex(curve, firstIndex, k) ==
  IF k = 0 THEN firstIndex ELSE IndexOf(EndStepOf(curve[k]))

C10_ExactAtPeak ==
  (DoneA /\ BoosterActive(call.options)) =>
    LET o == call.options
    IN  \A i \in (Pivot + 1)..Last :
          (R(STEPS[i]) = o.shadePeakStep) =>
            /\ locals[i].Si = RMul(BaseSaturationA(o), o.shadeBoost)
            /\ locals[i].hueShift =
                 RMul(o.shadeBoost,
                      RAdd(o.startHueShift,
                           RMul(RSub(o.endHueShift, o.startHueShift),
                                RDiv(RSub(o.shadePeakStep, R(500)), R(450)))))

C10_Witness ==
  /\ DoneA
  /\ call.options.shadePeakStep = R(800)
  /\ call.options.shadeBoost = Frac(6, 5)
  /\ call.options.startHueShift = R(-8)
  /\ call.options.baseC # Zero
  /\ locals[IndexOf(800) + 1].Si = RMul(BaseSaturationA(call.options), Frac(6, 5))
  /\ locals[IndexOf(800) + 1].hueShift = RMul(Frac(6, 5), R(-6))

\* the saturation resolved at a label of the shade half, the pivot included
\* (the pivot keeps the base colour, whose saturation is baseSaturation)
ShadeSaturation(o, i) == IF i = Pivot THEN BaseSaturationA(o) ELSE locals[i].Si

\* C11 as stated: with the peak booster active the resolved saturation is
\* non-decreasing from the pivot up to the peak step and non-increasing from
\* the peak step to step 950, for every base saturation, boost, peak step and
\* endS.
C11_BumpMonotone ==
  (DoneA /\ BoosterActive(call.options)) =>
    LET o == call.options
    IN  \A i \in Pivot..(Last - 1) :
          /\ RLe(R(STEPS[i + 1]), o.shadePeakStep) =>
               RLe(ShadeSaturation(o, i), ShadeSaturation(o, i + 1))
          /\ RLe(o.shadePeakStep, R(STEPS[i])) =>
               RLe(ShadeSaturation(o, i + 1), ShadeSaturation(o, i))

\* the options with neither shadePeakStep nor shadeBoost supplied
WithoutPeak(o) == [o EXCEPT !.shadePeakStep = Null, !.shadeBoost = Null]

\* C12: the peak booster changes only the saturation and hue shift of the
\* shade half: against the same configuration without {shadePeakStep,
\* shadeBoost} the lightness of all 13 samples, every tint sample and the
\* pivot sample are identical, and with only one of the two settings supplied
\* all 13 samples are identical.
C12_BoosterFrame ==
  DoneA =>
    LET o == call.options
    IN  \E plain \in {generatePerceptuallyUniformScale(WithoutPeak(o))} :
          /\ \A i \in 1..Len(STEPS) : scale[i].L = plain[i].L
          /\ \A i \in First..Pivot : scale[i] = plain[i]
          /\ (o.shadePeakStep = Null \/ o.shadeBoost = Null) => scale = plain

\* the booster is active and moves a shade sample, the tint half stays
C12_Witness ==
  /\ DoneA
  /\ call.options.shadePeakStep = R(800)
  /\ call.options.shadeBoost = Frac(6, 5)
  /\ call.options.baseC # Zero
  /\ \E plain \in {generatePerceptuallyUniformScale(WithoutPeak(call.options))} :
       /\ scale[IndexOf(800) + 1].C # plain[IndexOf(800) + 1].C
       /\ scale[IndexOf(800) + 1].H # plain[IndexOf(800) + 1].H
       /\ scale[IndexOf(800) + 1].L = plain[IndexOf(800) + 1].L
       /\ scale[First] = plain[First]

\* straight-line interpolation by label distance between the control points
\* at the labels lo and hi
LineByLabel(controlPoints, lo, hi, s) ==
  RAdd(controlPoints[lo],
       RMul(Frac(s - lo, hi - lo), RSub(controlPoints[hi], controlPoints[lo])))

\* C13: in Mode B, a channel whose control points lie only at the labels 50,
\* 500 and 950 resolves, at every other label s, v(lo) + (s - lo) / (hi - lo)
\* * (v(hi) - v(lo)) for the nearest defined labels lo < s < hi, measured by
\* label distance; a step with a control point of its own resolves that
\* control point's value.
C13_LinearByLabel ==
  DoneB =>
    LET o == call.options
        Law(controlPoints, Val(_)) ==
          /\ (DOMAIN controlPoints = {50, 500, 950}) =>
               \A i \in 1..Len(STEPS) :
                 LET s == STEPS[i]
                 IN  /\ (50 < s /\ s < 500) =>
                          Val(i) = LineByLabel(controlPoints, 50, 500, s)
                     /\ (500 < s /\ s < 950) =>
                          Val(i) = LineByLabel(controlPoints, 500, 950, s)
          /\ \A i \in 1..Len(STEPS) :
               (STEPS[i] \in DOMAIN controlPoints) =>
                 Val(i) = controlPoints[STEPS[i]]
    IN  /\ Law(HueControls(o), LAMBDA i : locals[i].hueShift)
        /\ Law(SatControls(o), LAMBDA i : RMul(locals[i].S, R(100)))
        /\ Law(LightControls(o), LAMBDA i : RMul(locals[i].L, R(100)))

\* hue control points 30, 0, -20 at 50, 500, 950: step 300 lies 250 labels
\* (4 of 6 indices) into the tint half
C13_Witness ==
  /\ DoneB
  /\ DOMAIN HueControls(call.options) = {50, 500, 950}
  /\ HueControls(call.options)[50] = R(30)
  /\ locals[IndexOf(300) + 1].hueShift = Frac(40, 3)
  /\ locals[IndexOf(300) + 1].hueShift # R(10)
  /\ locals[IndexOf(850) + 1].hueShift = Frac(-140, 9)

\* the smallest and the largest label of a control map
MinLabel(controlPoints) ==
  CHOOSE x \in DOMAIN controlPoints : \A y \in DOMAIN controlPoints : x <= y

MaxLabel(controlPoints) ==
  CHOOSE x \in DOMAIN controlPoints : \A y \in DOMAIN controlPoints : y <= x

\* C14: in Mode B a step below the smallest defined label resolves the value
\* at the smallest defined label and a step above the largest defined label
\* the value at the largest; with a hue or saturation control map holding only
\* the 500 entry all 13 steps resolve the 500 value (hue shift 0, the base
\* saturation).
C14_ClampOutside ==
  DoneB =>
    LET o == call.options
        Law(controlPoints, Val(_)) ==
          \A i \in 1..Len(STEPS) :
            /\ (STEPS[i] < MinLabel(controlPoints)) =>
                 Val(i) = controlPoints[MinLabel(controlPoints)]
            /\ (STEPS[i] > MaxLabel(controlPoints)) =>
                 Val(i) = controlPoints[MaxLabel(controlPoints)]
    IN  /\ Law(HueControls(o), LAMBDA i : locals[i].hueShift)
        /\ Law(SatControls(o), LAMBDA i : RMul(locals[i].S, R(100)))
        /\ Law(LightControls(o), LAMBDA i : RMul(locals[i].L, R(100)))
        /\ (DOMAIN mapValuesToSteps(o.hueProgression, StepSet) \subseteq {500}) =>
             \A i \in 1..Len(STEPS) : locals[i].hueShift = Zero
        /\ (DOMAIN mapValuesToSteps(o.saturationProgression, StepSet) \subseteq {500}) =>
             \A i \in 1..Len(STEPS) :
               locals[i].S = RDiv(o.baseSaturation, R(100))

\* hue control points at 200 and 500 only: steps 50..150 take the value at
\* 200, the shades the value at 500; the saturation map is empty
C14_Witness ==
  /\ DoneB
  /\ DOMAIN HueControls(call.options) = {200, 500}
  /\ locals[First].hueShift = R(12)
  /\ locals[IndexOf(150) + 1].hueShift = R(12)
  /\ locals[Last].hueShift = Zero
  /\ call.options.saturationProgression = NoMap
  /\ call.options.baseSaturation # Zero
  /\ locals[First].S = RDiv(call.options.baseSaturation, R(100))

\* a progression map without its entries at keys that are no step label
WithoutInvalidKeys(map) == [k \in DOMAIN map \cap StepSet |-> map[k]]

HasInvalidKey(map) == \E k \in DOMAIN map : k \notin StepSet

\* C15: in Mode B an entry of a progression map whose key is not one of the
\* 13 step labels is dropped and the generation goes on; the other entries
\* keep their values: the ramp is the one generated from the maps with the
\* invalid entries removed.
C15_InvalidKeyDropped ==
  DoneB =>
    LET o == call.options
        cleaned ==
          [o EXCEPT !.hueProgression = WithoutInvalidKeys(@),
                    !.saturationProgression = WithoutInvalidKeys(@),
                    !.lightnessProgression = WithoutInvalidKeys(@)]
    IN  /\ Len(scale) = Len(STEPS)
        /\ scale = generateScale(cleaned)
        /\ \A k \in DOMAIN o.hueProgression \cap (StepSet \ {500}) :
             locals[IndexOf(k) + 1].hueShift = o.hueProgression[k]

\* the hue map {200: 12, 250: 5}: step 300 interpolates between 200 and 500
C15_Witness ==
  /\ DoneB
  /\ HasInvalidKey(call.options.hueProgression)
  /\ 250 \in DOMAIN call.options.hueProgression
  /\ HasInvalidKey(call.options.saturationProgression)
  /\ HasInvalidKey(call.options.lightnessProgression)
  /\ locals[IndexOf(200) + 1].hueShift = R(12)
  /\ locals[IndexOf(300) + 1].hueShift = R(8)
  /\ call.options.baseSaturation # Zero

\* p percent of the base saturation
PercentOfBase(o, p) == RDiv(RMul(o.baseSaturation, p), R(100))

\* the saturation resolved at position i, on the scale of baseSaturation
ResolvedSaturation(i) == RMul(locals[i].S, R(100))

\* C16 as stated: every saturationProgression entry p at a step s resolves
\* baseSaturation * p / 100 at s, and with baseSaturation = 0 the resolved
\* saturation is 0 at all 13 steps.
C16_PercentOfBase ==
  DoneB =>
    LET o == call.options
    IN  /\ \A k \in DOMAIN o.saturationProgression \cap StepSet :
             ResolvedSaturation(IndexOf(k) + 1) =
               PercentOfBase(o, o.saturationProgression[k])
        /\ (o.baseSaturation = Zero) =>
             \A i \in 1..Len(STEPS) : locals[i].S = Zero

\* the absolute saturation at the labels that have one: the base saturation
\* at 500, the converted entry at every other label of the map
AbsoluteSaturation(o) ==
  [k \in (DOMAIN o.saturationProgression \cap StepSet) \cup {500} |->
     IF k = 500 THEN o.baseSaturation
     ELSE PercentOfBase(o, o.saturationProgression[k])]

\* C16 amended: an entry p at a step s other than 500 resolves baseSaturation
\* * p / 100 at s; step 500 resolves baseSaturation whatever the map holds
\* there; a step without an entry lies on the straight line, by label
\* distance, between the absolute values at its nearest labels (or takes the
\* nearest one when it has labels on one side only); with baseSaturation = 0
\* all 13 steps resolve 0.
C16_PercentOfBaseOffPivot ==
  DoneB =>
    LET o == call.options
        abs == AbsoluteSaturation(o)
        D == DOMAIN abs
    IN  /\ \A i \in 1..Len(STEPS) :
             LET s == STEPS[i]
                 below == {k \in D : k < s}
                 above == {k \in D : k > s}
                 lo == CHOOSE k \in below : \A j \in below : j <= k
                 hi == CHOOSE k \in above : \A j \in above : k <= j
             IN  ResolvedSaturation(i) =
                   IF s \in D THEN abs[s]
                   ELSE IF below = {} THEN abs[hi]
                   ELSE IF above = {} THEN abs[lo]
                   ELSE LineByLabel(abs, lo, hi, s)
        /\ (o.baseSaturation = Zero) =>
             \A i \in 1..Len(STEPS) : locals[i].S = Zero

\* the map {50: 0, 500: 50} on base saturation 50: 0 at step 50, the base at
\* the pivot, a third of the way at step 200
C16_Witness ==
  /\ DoneB
  /\ call.options.baseSaturation = R(50)
  /\ DOMAIN call.options.saturationProgression = {50, 500}
  /\ call.options.saturationProgression[500] = R(50)
  /\ locals[First].S = Zero
  /\ locals[Pivot].S = Frac(1, 2)
  /\ locals[IndexOf(200) + 1].S = Frac(1, 6)
  /\ locals[Last].S = Frac(1, 2)

\* start + (p / 100) * (end - start)
PercentOfRange(start, end, p) ==
  RAdd(start, RMul(RDiv(p, R(100)), RSub(end, start)))

DoneFind == pc = "classified" /\ call.op = "findFirstContrastyShade"

DoneFindRatio == pc = "classified" /\ call.op = "findFirstContrastyShadeRatio"

DoneMasks == pc = "classified" /\ call.op = "getContrastMasks"

DoneRow == pc = "classified" /\ call.op = "createScaleRow"

\* the threshold a call of findFirstContrastyShade scans for
TargetOf(c) == IF c.targetLc = Null THEN R(60) ELSE c.targetLc

\* white text on the colour reaches the target under the method
MeetsTarget(hex, targetLc, method) ==
  RLe(targetLc, RAbs(contrast(hex, white, method)))

\* the first-index law: r is the smallest index that qualifies, 0 when the
\* first colour qualifies, and -1 exactly when no index qualifies
FirstIndexLaw(r, n, Q(_)) ==
  /\ r \in (-1)..(n - 1)
  /\ (r = -1) <=> (\A i \in 0..(n - 1) : ~Q(i))
  /\ (r >= 0) => (Q(r) /\ \A j \in 0..(r - 1) : ~Q(j))
  /\ (n > 0 /\ Q(0)) => r = 0

\* C18: findFirstContrastyShade returns the smallest index of the ramp whose
\* contrast value is >= the threshold, 0 when the first colour already
\* qualifies, and -1 exactly when no index qualifies; in the APCA variant
\* with a target argument and in the luminance-ratio variant (4.5).
C18_FirstQualifyingIndex ==
  /\ DoneFind =>
       FirstIndexLaw(locals.result, Len(call.hexValues),
                     LAMBDA i : MeetsTarget(call.hexValues[i + 1], TargetOf(call),
                                            call.config.method))
  /\ DoneFindRatio =>
       FirstIndexLaw(locals.result, Len(call.hexValues),
                     LAMBDA i : RLe(Frac(9, 2),
                                    getContrastRatioAgainstWhite(call.hexValues[i + 1])))

\* a full ramp whose first qualifying index is neither 0 nor the last one
C18_Witness ==
  /\ DoneFind
  /\ Len(call.hexValues) = Len(STEPS)
  /\ call.targetLc = Null
  /\ call.config.method = "APCA"
  /\ locals.result = 7
  /\ MeetsTarget(call.hexValues[13], R(60), "APCA")
  /\ ~MeetsTarget(call.hexValues[7], R(60), "APCA")

\* C19 as stated: the swatch that receives the contrast indicator is the
\* pivot (index 6) whenever the pivot meets the threshold itself, also when a
\* lower index meets it; only when the pivot does not meet it, the first
\* qualifying index in scan order.
C19_PivotPreferred ==
  (DoneRow /\ Len(call.hexValues) = Len(STEPS)) =>
    LET Q(i) == MeetsTarget(call.hexValues[i + 1], R(60), call.config.method)
        chosen == {i \in 0..(Len(STEPS) - 1) : locals.swatches[i + 1].indicator}
    IN  /\ Q(Pivot - 1) => chosen = {Pivot - 1}
        /\ ~Q(Pivot - 1) =>
             chosen = {i \in 0..(Len(STEPS) - 1) :
                         Q(i) /\ \A j \in 0..(i - 1) : ~Q(j)}

\* the reference colour, the threshold and the direction of a mask
ReferenceOf(key) ==
  IF key \in {"lc60-white", "lc70-white", "lc30-white"} THEN white ELSE black

ThresholdOf(key) ==
  IF key \in {"lc60-white", "lc60-black"} THEN R(60)
  ELSE IF key \in {"lc70-white", "lc70-black"} THEN R(70) ELSE R(30)

\* lc60: the reference is the text on the colour; lc70, lc30: the colour is
\* the text on the reference
AbsoluteContrast(key, color) ==
  IF key \in {"lc60-white", "lc60-black"}
  THEN RAbs(contrastAPCA(color, ReferenceOf(key)))
  ELSE RAbs(contrastAPCA(ReferenceOf(key), color))

\* C20: getContrastMasks returns for each of its six (direction, threshold)
\* pairs one boolean per input colour, in input order (13 for a full ramp),
\* true exactly when the absolute contrast of that colour in that direction
\* is >= the threshold; what holds at one index does not depend on another.
C20_MasksPerColour ==
  DoneMasks =>
    /\ DOMAIN locals.masks = MaskKeys
    /\ \A key \in MaskKeys :
         /\ Len(locals.masks[key]) = Len(call.hexValues)
         /\ \A i \in 1..Len(call.hexValues) :
              locals.masks[key][i] =
                RLe(ThresholdOf(key), AbsoluteContrast(key, call.hexValues[i]))

\* a full ramp with a colour that reaches 70 as a background of white text
\* but not as text on white, after lighter colours that reach neither
C20_Witness ==
  /\ DoneMasks
  /\ Len(call.hexValues) = Len(STEPS)
  /\ Len(locals.masks["lc70-white"]) = 13
  /\ call.hexValues[9] = Grey(88)
  /\ locals.masks["lc60-white"][9] /\ ~locals.masks["lc70-white"][9]
  /\ RLe(R(70), whiteOnColor(call.hexValues[9]))
  /\ locals.masks["lc70-white"][10]
  /\ ~locals.masks["lc60-white"][Pivot] /\ locals.masks["lc60-black"][Pivot]
  /\ locals.masks["lc30-black"][9] /\ ~locals.masks["lc70-black"][9]

\* the callbacks of the run so far that assembled options for version
CallsOf(version) == {k \in 1..Len(history) : history[k].version = version}

\* the configuration, as imported, that callback k was given
ConfigOf(k) == ColorModules[history[k].version].colorConfigs[history[k].index]

ProgressionKeys == {"hueProgression", "saturationProgression", "lightnessProgression"}

\* C21: the Mode B options of a family hold, for each progression map, the
\* family's own map with exactly its entries when the family defines one and
\* the default map otherwise; startL and endL are the family's value when it
\* has one and the default otherwise; and the shared defaults are the imported
\* ones after every callback.
C21_MapsReplaceDefaults ==
  (pc = "build") =>
    /\ colorModule.v2.defaults = DefaultsV2
    /\ \A k \in CallsOf("v2") :
         LET config == ConfigOf(k)
             o == history[k].options
         IN  /\ \A key \in ProgressionKeys :
                  /\ key \in DOMAIN config =>
                       /\ o[key] = config[key]
                       /\ DOMAIN o[key] = DOMAIN config[key]
                  /\ key \notin DOMAIN config => o[key] = DefaultsV2[key]
             /\ \A key \in {"startL", "endL"} :
                  o[key] = IF key \in DOMAIN config THEN config[key] ELSE DefaultsV2[key]

\* orange (its lightness map has the one entry at 600, its saturation map is
\* the default one) and neutral (its own startL and endL) have been processed
C21_Witness ==
  /\ pc = "build"
  /\ \E j, k \in CallsOf("v2") :
       /\ history[j].index = 2
       /\ DOMAIN history[j].options.lightnessProgression = {600}
       /\ DOMAIN DefaultsV2.lightnessProgression # {600}
       /\ history[j].options.saturationProgression = DefaultsV2.saturationProgression
       /\ history[j].options.startL = DefaultsV2.startL
       /\ history[k].index = 3
       /\ history[k].options.startL = R(99)
       /\ history[k].options.startL # DefaultsV2.startL

\* C22: the ramp data holds for every family processed so far an entry under
\* its family name whose keys are the 13 step labels, each mapped to the hex
\* string of that family's own sample at the label's index, whatever families
\* were processed after it.
C22_OneEntryPerFamily ==
  (pc = "build") =>
    \A k \in 1..Len(history) :
      LET version == history[k].version
          family == FamilyOf(ConfigOf(k))
      IN  /\ family \in DOMAIN scaleData[version]
          /\ DOMAIN scaleData[version][family] = StepSet
          /\ \A step \in StepSet :
               scaleData[version][family][step] =
                 oklchToHex(history[k].fullScaleLCH[IndexOf(step) + 1])

\* p percent of the family's base saturation, on the generator's 0..1 scale
PercentOfBaseSaturation(config, p) ==
  RMul(Frac(p, 100), normalizeColorValue(config.baseSaturation, "saturation"))

\* C23: in the Mode A build a family with no startS and no endS of its own is
\* generated with the saturation anchor of step 50 at 10% of its base
\* saturation and the anchor of step 950 at 25% of its base saturation.
C23_DerivedAnchors ==
  (pc = "build") =>
    \A k \in CallsOf("v1") :
      LET config == ConfigOf(k)
      IN  ("startS" \notin DOMAIN config /\ "endS" \notin DOMAIN config) =>
            /\ history[k].options.startS = PercentOfBaseSaturation(config, 10)
            /\ history[k].options.endS = PercentOfBaseSaturation(config, 25)

\* 1-based position of the sample of a step label
At(step) == IndexOf(step) + 1

\* C24: Mode A's linear fallback puts the shade step of index i at progress
\* (i - 6) / 6 between the base and the end value, with equal increments from
\* step to step (850 at 4/6); Mode B with only the anchors at 50, 500 and 950
\* puts the step of label s at progress (s - 500) / 450 (850 at 350/450, the
\* increment from 700 to 800 twice the one from 800 to 850); on the same two
\* differing endpoints the two rules agree at 950 and at no other shade step.
C24_IndexVersusLabel ==
  /\ (DoneA /\ call.options.shadeLightnessCurve = NoCurve) =>
       LET o == call.options
           sixth == RDiv(RSub(o.endL, o.baseL), R(6))
           Li(i) == IF i = Pivot - 1 THEN o.baseL ELSE locals[i + 1].Li
       IN  /\ locals[At(850)].Li = RAdd(o.baseL, RMul(Frac(4, 6), RSub(o.endL, o.baseL)))
           /\ \A i \in ShadeIndices :
                LET byLabel == interpolateValue(STEPS[i + 1],
                                                Map2(500, o.baseL, 950, o.endL))
                IN  /\ Li(i) = RAdd(o.baseL, RMul(Frac(i - 6, 6), RSub(o.endL, o.baseL)))
                    /\ RSub(Li(i), Li(i - 1)) = sixth
                    /\ (STEPS[i + 1] = 950) => Li(i) = byLabel
                    /\ (STEPS[i + 1] # 950 /\ o.baseL # o.endL) => Li(i) # byLabel
  /\ (DoneB /\ call.options.lightnessProgression = NoMap) =>
       LET o == call.options
           range == RSub(o.endL, o.baseLightness)
           L(step) == RMul(locals[At(step)].L, R(100))
       IN  /\ L(850) = RAdd(o.baseLightness, RMul(Frac(350, 450), range))
           /\ RSub(L(800), L(700)) = RMul(R(2), RSub(L(850), L(800)))
           /\ \A i \in ShadeIndices :
                LET step == STEPS[i + 1]
                    byIndex == evaluateCurveSegment(step, NoCurve, o.baseLightness,
                                                    o.endL, Pivot - 1, Last - 1)
                IN  /\ L(step) = RAdd(o.baseLightness,
                                      RMul(Frac(step - 500, 450), range))
                    /\ (step = 950) => L(step) = byIndex
                    /\ (step # 950 /\ o.baseLightness # o.endL) => L(step) # byIndex

\* a Mode A call with the linear fallback and a Mode B call with only the
\* anchors, each with its value at step 850 between the two endpoints
C24_WitnessA ==
  /\ DoneA
  /\ call.options.shadeLightnessCurve = NoCurve
  /\ call.options.baseL # call.options.endL
  /\ locals[At(850)].Li #
       interpolateValue(850, Map2(500, call.options.baseL, 950, call.options.endL))

C24_Witness ==
  /\ DoneB
  /\ call.options.lightnessProgression = NoMap
  /\ call.options.baseLightness = R(80) /\ call.options.endL = R(8)
  /\ locals[At(850)].L = Frac(24, 100)
  /\ evaluateCurveSegment(850, NoCurve, R(80), R(8), Pivot - 1, Last - 1) = R(32)

\* the shade labels
ShadeLabels == {STEPS[i] : i \in (Pivot + 1)..Last}

\* the hue shift Mode A's ordinary shade progression with a linear shade
\* curve and no booster resolves at a shade label
OrdinaryLinearHueShift(o, step) ==
  evaluatePiecewiseCurve(step, o.tintHueCurve, <<Seg("linear", Null, 950)>>,
                         o.startHueShift, Zero, o.endHueShift)

\* C25 as stated: with the booster active the hue shift at the peak step (the
\* boosted peak hue shift) is boost times the hue shift the ordinary linear
\* shade progression yields at the peak step.
C25_PeakFromOrdinaryProgression ==
  (DoneA /\ BoosterActive(call.options)) =>
    LET o == call.options
    IN  \A step \in ShadeLabels :
          (R(step) = o.shadePeakStep) =>
            locals[At(step)].hueShift =
              RMul(o.shadeBoost, OrdinaryLinearHueShift(o, step))

\* the value at the label x of the straight line, by label distance, from
\* startHueShift at 500 to endHueShift at 950
AnchorLineAt(o, x) ==
  RAdd(o.startHueShift,
       RMul(RSub(o.endHueShift, o.startHueShift), RDiv(RSub(x, R(500)), R(450))))

\* C25, amended: the peak hue shift the booster uses is boost times the value
\* at the peak's label of the straight line from startHueShift at 500 to
\* endHueShift at 950: the peak step resolves it, a shade step below the peak
\* resolves it scaled by easeOutSine((step - 500) / (peak - 500)), a shade step
\* above the peak moves from it to endHueShift by easeInSine((step - peak) /
\* (950 - peak)); it is boost times the ordinary linear hue shift at the peak
\* when the peak is step 950.
C25_PeakFromAnchorLine ==
  (DoneA /\ BoosterActive(call.options)) =>
    LET o == call.options
        peak == o.shadePeakStep
        boosted == RMul(o.shadeBoost, AnchorLineAt(o, peak))
    IN  \A step \in ShadeLabels :
          /\ (R(step) = peak) => locals[At(step)].hueShift = boosted
          /\ RLt(R(step), peak) =>
               locals[At(step)].hueShift =
                 RMul(boosted,
                      easeOutSine(RDiv(RSub(R(step), R(500)), RSub(peak, R(500)))))
          /\ RLt(peak, R(step)) =>
               locals[At(step)].hueShift =
                 RAdd(boosted,
                      RMul(RSub(o.endHueShift, boosted),
                           easeInSine(RDiv(RSub(R(step), peak), RSub(R(950), peak)))))
          /\ (R(step) = peak /\ step = 950) =>
               locals[At(step)].hueShift =
                 RMul(o.shadeBoost, OrdinaryLinearHueShift(o, step))

\* peak 800 with boost 6/5 on the hue anchors -8 and -5: the line gives -6 and
\* the peak step -7.2, where the ordinary linear progression is at -2.5
C25_Witness ==
  /\ DoneA
  /\ call.options.shadePeakStep = R(800)
  /\ call.options.shadeBoost = Frac(6, 5)
  /\ call.options.startHueShift = R(-8)
  /\ call.options.endHueShift = R(-5)
  /\ locals[At(800)].hueShift = Frac(-36, 5)
  /\ OrdinaryLinearHueShift(call.options, 800) = Frac(-5, 2)

\* the positive constants the rates of a curve are multiplied by
RateFactors == {Frac(1, 2), R(3)}

\* the curve definition with the rate of every segment multiplied by c (a
\* segment written without a rate has the rate 1)
WithRatesTimes(curve, c) ==
  [k \in 1..Len(curve) |-> [curve[k] EXCEPT !.rate = RMul(RateOf(curve[k]), c)]]

\* C26: in Mode A the value resolved at every step on every channel is the
\* value the same call resolves when the rates of every segment of its curve
\* are multiplied by one positive constant.
C26_RatesAreRelative ==
  DoneA =>
    LET o == call.options
        Law(tintCurve, shadeCurve, startValue, baseValue, endValue, Val(_), steps) ==
          \A c \in RateFactors :
            \A i \in steps :
              Val(i) = evaluatePiecewiseCurve(STEPS[i], WithRatesTimes(tintCurve, c),
                                              WithRatesTimes(shadeCurve, c),
                                              startValue, baseValue, endValue)
        curved == IF BoosterActive(o) THEN 1..(Pivot - 1)
                  ELSE (1..Len(STEPS)) \ {Pivot}
    IN  /\ Law(o.tintLightnessCurve, o.shadeLightnessCurve, o.startL, o.baseL, o.endL,
               LAMBDA i : locals[i].Li, (1..Len(STEPS)) \ {Pivot})
        /\ Law(o.tintSaturationCurve, o.shadeSaturationCurve, o.startS,
               BaseSaturationA(o), o.endS, LAMBDA i : locals[i].Si, curved)
        /\ Law(o.tintHueCurve, o.shadeHueCurve, o.startHueShift, Zero, o.endHueShift,
               LAMBDA i : locals[i].hueShift, curved)

\* the default shade curve (rates 3/5 and 2/5) on the lightness channel: step
\* 700, inside the first segment, is where it is with the rates 9/5 and 6/5,
\* off the end points and off the value an unweighted curve gives
C26_Witness ==
  /\ DoneA
  /\ call.options.shadeLightnessCurve = DefaultShadeCurve
  /\ WithRatesTimes(DefaultShadeCurve, R(3)) =
       <<Seg("easeInSine", Frac(9, 5), 800), Seg("linear", Frac(6, 5), 950)>>
  /\ locals[At(700)].Li =
       evaluateCurveSegment(700, WithRatesTimes(DefaultShadeCurve, R(3)),
                            call.options.baseL, call.options.endL, Pivot - 1, Last - 1)
  /\ locals[At(700)].Li #
       evaluateCurveSegment(700, <<Seg("easeInSine", Null, 800), Seg("linear", Null, 950)>>,
                            call.options.baseL, call.options.endL, Pivot - 1, Last - 1)
  /\ locals[At(700)].Li \notin {call.options.baseL, call.options.endL}

\* the curve is not empty and none of its segments, parsed for the half that
\* starts at the index firstIndex, holds the index i
OutsideEverySegment(curve, firstIndex, i) ==
  /\ Len(curve) > 0
  /\ LET segments == parseCurveDefinition(curve, StepAt(firstIndex))
     IN  \A k \in 1..Len(segments) :
           ~(IndexOf(segments[k].startStep) <= i /\ i <= IndexOf(segments[k].endStep))

\* C27: in Mode A a step whose index lies in no segment of a non-empty curve
\* resolves the end value of its half: the base value under a tint curve, the
\* end anchor under a shade curve.
C27_OutsideGivesEndValue ==
  DoneA =>
    LET o == call.options
        Law(tintCurve, shadeCurve, baseValue, endValue, Val(_), shadeToo) ==
          /\ \A i \in TintIndices :
               OutsideEverySegment(tintCurve, First - 1, i) => Val(i) = baseValue
          /\ shadeToo =>
               \A i \in ShadeIndices :
                 OutsideEverySegment(shadeCurve, Pivot - 1, i) => Val(i) = endValue
    IN  /\ Law(o.tintLightnessCurve, o.shadeLightnessCurve, o.baseL, o.endL,
               LAMBDA i : locals[i + 1].Li, TRUE)
        /\ Law(o.tintSaturationCurve, o.shadeSaturationCurve, BaseSaturationA(o),
               o.endS, LAMBDA i : locals[i + 1].Si, ~BoosterActive(o))
        /\ Law(o.tintHueCurve, o.shadeHueCurve, Zero, o.endHueShift,
               LAMBDA i : locals[i + 1].hueShift, ~BoosterActive(o))

\* the tint curve ["linear", 300] stops before step 400, which gets the base
\* lightness, while step 200 inside the segment does not
C27_Witness ==
  /\ DoneA
  /\ call.options.tintLightnessCurve = <<Seg("linear", Null, 300)>>
  /\ OutsideEverySegment(call.options.tintLightnessCurve, First - 1, IndexOf(400))
  /\ ~OutsideEverySegment(call.options.tintLightnessCurve, First - 1, IndexOf(200))
  /\ locals[At(400)].Li = call.options.baseL
  /\ locals[At(400)].Li # call.options.startL
  /\ locals[At(200)].Li # call.options.baseL

DoneEval == pc = "done" /\ call.op = "evaluateCurveSegment"

C29_NoZeroDivisor ==
  (DoneA /\ BoosterActive(call.options)) =>
    LET peak == call.options.shadePeakStep
    IN  \A i \in (Pivot + 1)..Last :
          /\ RLt(R(STEPS[i]), peak) => RLt(Zero, RSub(peak, R(500)))
          /\ RLt(peak, R(STEPS[i])) => RLt(Zero, RSub(R(950), peak))
          /\ IsFinite(locals[i].Si)
          /\ IsFinite(locals[i].hueShift)

\* the peak at 950, where 950 - peakStep is 0: step 950 takes the peak
\* values and step 900 is eased over 450
C29_Witness ==
  /\ DoneA
  /\ call.options.shadePeakStep = R(950)
  /\ call.options.shadeBoost = Frac(11, 10)
  /\ call.options.baseC # Zero
  /\ RSub(R(950), call.options.shadePeakStep) = Zero
  /\ locals[Last].Si = RMul(BaseSaturationA(call.options), Frac(11, 10))
  /\ IsFinite(locals[At(900)].Si)
  /\ locals[At(900)].Si # locals[Last].Si

\* C30: in the masks getContrastMasks returns, at every index a true entry of
\* the Lc70 mask of a reference (white, black) comes with a true entry of the
\* Lc30 mask of the same reference.
C30_StricterWithinLooser ==
  DoneMasks =>
    \A reference \in {"white", "black"} :
      LET strict == IF reference = "white" THEN "lc70-white" ELSE "lc70-black"
          loose == IF reference = "white" THEN "lc30-white" ELSE "lc30-black"
      IN  \A i \in 1..Len(call.hexValues) :
            locals.masks[strict][i] => locals.masks[loose][i]

\* a ramp with a colour that meets 70 and 30 as text on white, one that
\* meets 30 only, and one that meets neither; likewise on black
C30_Witness ==
  /\ DoneMasks
  /\ \E i, j, k \in 1..Len(call.hexValues) :
       /\ locals.masks["lc70-white"][i] /\ locals.masks["lc30-white"][i]
       /\ ~locals.masks["lc70-white"][j] /\ locals.masks["lc30-white"][j]
       /\ ~locals.masks["lc70-white"][k] /\ ~locals.masks["lc30-white"][k]
  /\ \E i, j \in 1..Len(call.hexValues) :
       /\ locals.masks["lc70-black"][i] /\ locals.masks["lc30-black"][i]
       /\ ~locals.masks["lc70-black"][j] /\ locals.masks["lc30-black"][j]

=============================================================================
